---- MODULE Spec2Model ----
(***************************************************************************)
(* Client-side streaming-readiness procedure of the ProHand C++ wrapper    *)
(* (ProHandClient::waitForStreamingReady and the operations it calls).     *)
(* Time is counted in milliseconds on one steady clock; the call is        *)
(* invoked at clock = 0.                                                   *)
(***************************************************************************)
EXTENDS Integers, Sequences, FiniteSets, TLC

VARIABLES
    pc,             \* position of the caller inside waitForStreamingReady
    handle_,        \* TRUE iff the native handle is non-null
    timeout,        \* parameter, ms
    retryInterval,  \* parameter, ms
    clock,          \* steady clock, ms since the invocation
    start,          \* local `start`
    lastRetry,      \* local `lastRetry`
    now,            \* local `now` of the current loop iteration
    elapsed,        \* local `elapsed` of the current loop iteration
    result,         \* "none" | "true" | "false" | "throw"
    pingOk,         \* the liveness ping returned without throwing
    settled,        \* the settle delay has been taken
    nPing,          \* native pings issued
    nEnable,        \* setStreamingMode(true) attempts of this invocation
    nEnableThrew,   \* ... of which threw
    nPoll,          \* isRunningState() checks made inside the loop
    nFinal,         \* isRunningState() checks made after the loop
    sawRunning,     \* some isRunningState() check returned true
    lastCheck,      \* value of the most recent isRunningState() check
    lastEnable,     \* "none" | "ok" | "threw": outcome of the latest re-assert
    hostMode,       \* "any": arbitrary host; "lossy": drops every first enable
    hostEnables,    \* enable commands put on the wire so far (lossy host)
    hostRunning,    \* lossy host: the driver is in Running state
    sent            \* the client methods waitForStreamingReady has called so far

\* the last single operation invoked on the client (outside waitForStreamingReady)
VARIABLES
    opClass,        \* "none" | "hand" (ProHandClient) | "glove" (ProGloveClient)
    opName,         \* name of the method
    opLens,         \* sizes of the arrays passed
    opHandleOk,     \* the handle was non-null when the method was entered
    opNativeCalls,  \* native functions the method invoked
    opNative,       \* result of the native function (0 if none was invoked)
    opOutcome,      \* "none" | "ok" | "throw" | "true" | "false" | "status" | "nullopt"
    opError,        \* text of the SdkException thrown ("" if none)
    ready           \* waitForStreamingReady has returned true before

\* state of waitForStreamingReady
wvars == <<pc, handle_, timeout, retryInterval, clock, start, lastRetry, now,
           elapsed, result, pingOk, settled, nPing, nEnable, nEnableThrew,
           nPoll, nFinal, sawRunning, lastCheck, lastEnable, hostMode,
           hostEnables, hostRunning, sent>>

opvars == <<opClass, opName, opLens, opHandleOk, opNativeCalls, opNative,
            opOutcome, opError, ready>>

\* one run of a streaming demo program (cyclic_motion, test_hand, kapandji)
VARIABLES
    demo,           \* "none" until started, then the program that runs
    dOpts,          \* its options: [excludeWrist, includeThumb, yaml, cycles]
    dpc,            \* position in main()
    dIdx,           \* next send of the current block of streaming sends
    dIter,          \* iterations of the streaming loop begun so far
    dExit,          \* exit code of the process, -1 while it runs
    dTrace,         \* client calls made so far: <<method, argument, outcome>>
    dArgs,          \* what each of these calls carried: [pos, torque]
    dSample         \* the time sample of the current loop iteration: [level, seg]

dmvars == <<demo, dOpts, dpc, dIdx, dIter, dExit, dTrace, dArgs, dSample>>

\* caller threads that share the one client object
VARIABLES
    cMode,          \* "none", then "locked" (callers share a mutex) or "unlocked"
    mutex,          \* the callers' mutex: 0 = free, else the thread that holds it
    tpc,            \* position of each caller thread
    tReq,           \* the command each thread is issuing
    tOut,           \* how each thread's last call ended
    tCalls,         \* calls each thread has completed
    inNative        \* threads whose native call on the handle has not returned

ccvars == <<cMode, mutex, tpc, tReq, tOut, tCalls, inNative>>

\* several client objects and the native handles they own
VARIABLES
    oAlive,         \* per object: constructed and not yet destructed
    oClass,         \* per object: "hand" (ProHandClient) or "glove" (ProGloveClient)
    oHandle,        \* per object: handle_, 0 = nullptr, else the handle's number
    nCreated,       \* handles the create functions have returned so far
    destroyCount,   \* per handle: calls of the destroy function with it
    lcOp,           \* the last lifecycle step or method call
    lcOut,          \* how it ended
    lcCalls,        \* native calls it made
    lcNull,         \* the object it ran on held no handle
    nativeBad       \* a native function was called with a null or destroyed handle

lcvars == <<oAlive, oClass, oHandle, nCreated, destroyCount, lcOp, lcOut,
            lcCalls, lcNull, nativeBad>>

\* the status channel polled by tryRecvStatus
VARIABLES
    sQueue,         \* status messages received by the library and not yet polled
    sOpen,          \* further messages may still arrive
    sArrived,       \* messages that have arrived so far
    sErrLeft,       \* polls that may still fail
    sLast,          \* outcome of the last tryRecvStatus: "none" | "status" | "nullopt" | "throw"
    sNative,        \* result of its native poll
    sPolls,         \* native polls it made
    sReceived       \* statuses returned to the caller so far

stvars == <<sQueue, sOpen, sArrived, sErrLeft, sLast, sNative, sPolls, sReceived>>

\* one run of the ping demo program
VARIABLES
    pgpc,           \* position in main()
    pgClient,       \* the client object was constructed
    pgCount,        \* --count
    pgI,            \* the loop variable i
    successCount,   \* pings that returned
    pgSent,         \* outcomes of the sendPing calls made so far
    pgSleeps,       \* delays slept between pings
    pgExit          \* exit code of the process, -1 while it runs

pgvars == <<pgpc, pgClient, pgCount, pgI, successCount, pgSent, pgSleeps, pgExit>>

\* one run of the test_glove monitor, and the SIGINT it may receive
VARIABLES
    mpc,            \* position in main()
    g_running,      \* the flag the signal handler clears
    mDuration,      \* --duration, in ticks; 0 = infinite
    mClock,         \* steady_clock, in ticks
    mStart,         \* startTime
    mElapsed,       \* elapsed, as computed in the current iteration
    mPolls,         \* tryRecvStatus polls made so far (counted up to MaxMonPolls)
    mPollsAfterInt, \* polls begun after the handler ran (counted up to 2)
    mWhy,           \* why the loop was left: "none" | "flag" | "duration" | "throw"
    mExit           \* exit code of the process, -1 while it runs

mnvars == <<mpc, g_running, mDuration, mClock, mStart, mElapsed, mPolls,
            mPollsAfterInt, mWhy, mExit>>

\* one run of the connect demo program
VARIABLES
    cnpc,           \* position in main()
    cClock,         \* steady_clock, in milliseconds
    cStart,         \* startTime
    cConnected,     \* what the most recent isConnected() returned: "none" | "true" | "false"
    cChecks,        \* isConnected() calls made so far
    cPinged,        \* sendPing() was called
    cExit           \* exit code of the process, -1 while it runs

cnvars == <<cnpc, cClock, cStart, cConnected, cChecks, cPinged, cExit>>

\* kapandji: one gesture read from the YAML configuration and streamed
VARIABLES
    kpc,            \* "start" | "chosen" | "streamed" | "thrown"
    kGesture,       \* the gesture's entry in the configuration: [found, nodes]
    kPositions,     \* positions, as passed to sendHandStreams
    kWrist,         \* wristPositions, as passed to sendWristStreams
    kSend           \* how the sendHandStreams call ended

kpvars == <<kpc, kGesture, kPositions, kWrist, kSend>>

\* the command-line tools
tlvars == <<pgvars, mnvars, cnvars, kpvars>>

\* what the steps of waitForStreamingReady never touch
xvars == <<opvars, dmvars, ccvars, lcvars, stvars, tlvars>>

\* what a single method call never touches
exceptOps == <<wvars, dmvars, ccvars, lcvars, stvars, tlvars>>

\* what a demo run never touches
exceptDemo == <<wvars, opvars, ccvars, lcvars, stvars, tlvars>>

\* what the caller threads never touch
exceptConc == <<wvars, opvars, dmvars, lcvars, stvars, tlvars>>

\* what the object lifecycle never touches
exceptLifecycle == <<wvars, opvars, dmvars, ccvars, stvars, tlvars>>

\* what status polling never touches
exceptStatus == <<wvars, opvars, dmvars, ccvars, lcvars, tlvars>>

\* what the ping demo never touches
exceptPing == <<wvars, opvars, dmvars, ccvars, lcvars, stvars, mnvars, cnvars, kpvars>>

\* what the test_glove monitor never touches
exceptMonitor == <<wvars, opvars, dmvars, ccvars, lcvars, stvars, pgvars, cnvars, kpvars>>

\* what the connect demo never touches
exceptConnect == <<wvars, opvars, dmvars, ccvars, lcvars, stvars, pgvars, mnvars, kpvars>>

\* what reading and streaming a gesture never touches
exceptPose == <<wvars, opvars, dmvars, ccvars, lcvars, stvars, pgvars, mnvars, cnvars>>

vars == <<wvars, xvars>>

(***************************************************************************)
(* Bounds of the model                                                     *)
(***************************************************************************)
TimeUnit == 100
MaxTimeoutSteps == 5
MaxRetrySteps == 3
DelayUnit == 10
MaxDelaySteps == 1
\* cap on the status checks of one invocation; never reached by the code,
\* whose loop is left after at most (timeout - 200) / 50 + 1 iterations
MaxPolls == 9
\* status messages that arrive in a run, and polls of a run that fail
MaxQueued == 3
MaxPollErrors == 2
\* client objects that exist side by side, and native handles ever created
NumObjects == 2
MaxHandles == 2

Timeouts == {k * TimeUnit : k \in 0..MaxTimeoutSteps}
RetryIntervals == {k * TimeUnit : k \in 0..MaxRetrySteps}
\* time a blocking call takes, and time a sleep takes beyond what was asked
Delays == {k * DelayUnit : k \in 0..MaxDelaySteps}

(***************************************************************************)
(* Program constants                                                       *)
(***************************************************************************)
pollInterval == 50
settleDelay == 200

PROHAND_SUCCESS == 0
PROHAND_ERROR_NULL == 0 - 1
PROHAND_ERROR_CONNECTION == 0 - 2
PROHAND_ERROR_INVALID_ARGUMENT == 0 - 3
PROHAND_ERROR_NOT_CONNECTED == 0 - 4
PROHAND_ERROR_UNSUPPORTED == 0 - 5
PROHAND_ERROR_OTHER == 0 - 99

ProHandResult == {PROHAND_SUCCESS, PROHAND_ERROR_NULL, PROHAND_ERROR_CONNECTION,
                  PROHAND_ERROR_INVALID_ARGUMENT, PROHAND_ERROR_NOT_CONNECTED,
                  PROHAND_ERROR_UNSUPPORTED, PROHAND_ERROR_OTHER}

\* prohand_is_running_state: 1 if running, 0 if not, negative on error
RunningStateResults == {1, 0, PROHAND_ERROR_NULL, PROHAND_ERROR_CONNECTION}

Min(a, b) == IF a <= b THEN a ELSE b

(***************************************************************************)
(* Helpers of the wrapper                                                  *)
(***************************************************************************)
\* mutant: the null test is missing
checkHandleMissing(h) == "ok"

\* checkHandle(): throws iff the handle is null
checkHandle(h) == IF h THEN "ok" ELSE "throw"

\* checkResult(result, operation): throws unless the native call succeeded
checkResult(r) == IF r = PROHAND_SUCCESS THEN "ok" ELSE "throw"

\* mutant: every non-zero result of the native check counts as running
isRunningStateNonZero(r) == r # 0

\* isRunningState(): prohand_is_running_state(handle_) == 1
isRunningState(r) == r = 1

\* what the native status check can return, by host
NativeRunningState ==
    IF hostMode = "lossy"
    THEN {IF hostRunning THEN 1 ELSE 0}
    ELSE RunningStateResults

\* the lossy command path drops every first enable and delivers every second
Delivered(k) == k % 2 = 0

(***************************************************************************)
(* Initial state: a constructed client, nothing invoked                    *)
(***************************************************************************)
InitCommon ==
    /\ pc = "idle"
    /\ handle_ = TRUE
    /\ timeout = 0
    /\ retryInterval = 0
    /\ clock = 0
    /\ start = 0
    /\ lastRetry = 0
    /\ now = 0
    /\ elapsed = 0
    /\ result = "none"
    /\ pingOk = FALSE
    /\ settled = FALSE
    /\ nPing = 0
    /\ nEnable = 0
    /\ nEnableThrew = 0
    /\ nPoll = 0
    /\ nFinal = 0
    /\ sawRunning = FALSE
    /\ lastCheck = FALSE
    /\ lastEnable = "none"
    /\ hostRunning = FALSE
    /\ sent = {}
    /\ opClass = "none"
    /\ opName = "none"
    /\ opLens = <<>>
    /\ opHandleOk = TRUE
    /\ opNativeCalls = 0
    /\ opNative = 0
    /\ opOutcome = "none"
    /\ opError = ""
    /\ ready = FALSE
    /\ demo = "none"
    /\ dOpts = [excludeWrist |-> FALSE, includeThumb |-> FALSE, yaml |-> TRUE, cycles |-> 0]
    /\ dpc = "start"
    /\ dIdx = 1
    /\ dIter = 0
    /\ dExit = 0 - 1
    /\ dTrace = <<>>
    /\ dArgs = <<>>
    /\ dSample = [level |-> 0, seg |-> 0]
    /\ cMode = "none"
    /\ mutex = 0
    /\ tpc = [t \in 1..2 |-> "idle"]
    /\ tReq = [t \in 1..2 |-> "none"]
    /\ tOut = [t \in 1..2 |-> "none"]
    /\ tCalls = [t \in 1..2 |-> 0]
    /\ inNative = {}
    /\ oAlive = [o \in 1..NumObjects |-> FALSE]
    /\ oClass = [o \in 1..NumObjects |-> "hand"]
    /\ oHandle = [o \in 1..NumObjects |-> 0]
    /\ nCreated = 0
    /\ destroyCount = [k \in 1..MaxHandles |-> 0]
    /\ lcOp = "none"
    /\ lcOut = "none"
    /\ lcCalls = 0
    /\ lcNull = FALSE
    /\ nativeBad = FALSE
    /\ sQueue = 0
    /\ sOpen = TRUE
    /\ sArrived = 0
    /\ sErrLeft = MaxPollErrors
    /\ sLast = "none"
    /\ sNative = 0
    /\ sPolls = 0
    /\ sReceived = 0
    /\ pgpc = "start"
    /\ pgClient = FALSE
    /\ pgCount = 0
    /\ pgI = 0
    /\ successCount = 0
    /\ pgSent = <<>>
    /\ pgSleeps = 0
    /\ pgExit = 0 - 1
    /\ mpc = "start"
    /\ g_running = TRUE
    /\ mDuration = 0
    /\ mClock = 0
    /\ mStart = 0
    /\ mElapsed = 0
    /\ mPolls = 0
    /\ mPollsAfterInt = 0
    /\ mWhy = "none"
    /\ mExit = 0 - 1
    /\ cnpc = "start"
    /\ cClock = 0
    /\ cStart = 0
    /\ cConnected = "none"
    /\ cChecks = 0
    /\ cPinged = FALSE
    /\ cExit = 0 - 1
    /\ kpc = "start"
    /\ kGesture = [found |-> FALSE, nodes |-> <<>>]
    /\ kPositions = <<>>
    /\ kWrist = <<>>
    /\ kSend = [outcome |-> "none", error |-> "", calls |-> 0, native |-> 0]

Init ==
    /\ InitCommon
    /\ hostMode = "any"
    /\ hostEnables = 0

\* lossy host; hostEnables = 1: the caller already sent its own
\* setStreamingMode(true) before the call (demo pattern), and it was dropped
InitLossy ==
    /\ InitCommon
    /\ hostMode = "lossy"
    /\ hostEnables \in {0, 1}

(***************************************************************************)
(* Actions                                                                 *)
(***************************************************************************)
\* move constructor / move assignment: this object is moved from
MoveFrom ==
    /\ pc = "idle"
    /\ handle_
    /\ handle_' = FALSE
    /\ UNCHANGED xvars
    /\ UNCHANGED <<pc, timeout, retryInterval, clock, start, lastRetry, now,
                   elapsed, result, pingOk, settled, nPing, nEnable,
                   nEnableThrew, nPoll, nFinal, sawRunning, lastCheck,
                   lastEnable, hostMode, hostEnables, hostRunning>>
    /\ UNCHANGED sent

\* waitForStreamingReady(T, R): entry and checkHandle()
Call(T, R) ==
    /\ pc = "idle"
    /\ timeout' = T
    /\ retryInterval' = R
    /\ IF checkHandle(handle_) = "ok"
       THEN /\ pc' = "ping"
            /\ result' = result
       ELSE /\ pc' = "done"
            /\ result' = "throw"
    /\ UNCHANGED xvars
    /\ UNCHANGED <<handle_, clock, start, lastRetry, now, elapsed, pingOk,
                   settled, nPing, nEnable, nEnableThrew, nPoll, nFinal,
                   sawRunning, lastCheck, lastEnable, hostMode, hostEnables,
                   hostRunning>>
    /\ UNCHANGED sent

\* mutant: a failed ping is swallowed and the procedure goes on
PingStepIgnoreFailure(r, d) ==
    /\ pc = "ping"
    /\ nPing' = nPing + 1
    /\ clock' = clock + d
    /\ pingOk' = (checkResult(r) = "ok")
    /\ start' = clock'
    /\ lastRetry' = clock'
    /\ pc' = "settle"
    /\ UNCHANGED xvars
    /\ UNCHANGED <<handle_, timeout, retryInterval, now, elapsed, result,
                   settled, nEnable, nEnableThrew, nPoll, nFinal, sawRunning,
                   lastCheck, lastEnable, hostMode, hostEnables, hostRunning>>
    /\ sent' = sent \cup {"sendPing"}

\* try { sendPing(); } catch (...) { return false; }  then start = lastRetry = now()
PingStep(r, d) ==
    /\ pc = "ping"
    /\ nPing' = nPing + 1
    /\ clock' = clock + d
    /\ IF checkResult(r) = "ok"
       THEN /\ pingOk' = TRUE
            /\ start' = clock'
            /\ lastRetry' = clock'
            /\ pc' = "settle"
            /\ result' = result
       ELSE /\ pingOk' = FALSE
            /\ start' = start
            /\ lastRetry' = lastRetry
            /\ pc' = "done"
            /\ result' = "false"
    /\ UNCHANGED xvars
    /\ UNCHANGED <<handle_, timeout, retryInterval, now, elapsed, settled,
                   nEnable, nEnableThrew, nPoll, nFinal, sawRunning, lastCheck,
                   lastEnable, hostMode, hostEnables, hostRunning>>
    /\ sent' = sent \cup {"sendPing"}

\* mutant: the loop starts right after the ping
SettleStepSkipped(j) ==
    /\ pc = "settle"
    /\ clock' = clock + j
    /\ settled' = TRUE
    /\ pc' = "loop"
    /\ UNCHANGED xvars
    /\ UNCHANGED <<handle_, timeout, retryInterval, start, lastRetry, now,
                   elapsed, result, pingOk, nPing, nEnable, nEnableThrew, nPoll,
                   nFinal, sawRunning, lastCheck, lastEnable, hostMode,
                   hostEnables, hostRunning>>
    /\ UNCHANGED sent

\* std::this_thread::sleep_for(0.2)
SettleStep(j) ==
    /\ pc = "settle"
    /\ clock' = clock + settleDelay + j
    /\ settled' = TRUE
    /\ pc' = "loop"
    /\ UNCHANGED xvars
    /\ UNCHANGED <<handle_, timeout, retryInterval, start, lastRetry, now,
                   elapsed, result, pingOk, nPing, nEnable, nEnableThrew, nPoll,
                   nFinal, sawRunning, lastCheck, lastEnable, hostMode,
                   hostEnables, hostRunning>>
    /\ UNCHANGED sent

\* the exit test at the head of the loop
LoopExit(e, T) == e >= T

\* loop head: now, elapsed, and the timeout break
LoopHead ==
    /\ pc = "loop"
    /\ now' = clock
    /\ elapsed' = clock - start
    /\ pc' = IF LoopExit(elapsed', timeout) THEN "final" ELSE "poll"
    /\ UNCHANGED xvars
    /\ UNCHANGED <<handle_, timeout, retryInterval, clock, start, lastRetry,
                   result, pingOk, settled, nPing, nEnable, nEnableThrew, nPoll,
                   nFinal, sawRunning, lastCheck, lastEnable, hostMode,
                   hostEnables, hostRunning>>
    /\ UNCHANGED sent

\* mutant: the test of the poll is inverted
PollStepInverted(r) ==
    /\ pc = "poll"
    /\ nPoll < MaxPolls
    /\ nPoll' = nPoll + 1
    /\ lastCheck' = isRunningState(r)
    /\ sawRunning' = (sawRunning \/ lastCheck')
    /\ IF ~lastCheck'
       THEN /\ pc' = "done"
            /\ result' = "true"
       ELSE /\ pc' = "retry"
            /\ result' = result
    /\ UNCHANGED xvars
    /\ UNCHANGED <<handle_, timeout, retryInterval, clock, start, lastRetry,
                   now, elapsed, pingOk, settled, nPing, nEnable, nEnableThrew,
                   nFinal, lastEnable, hostMode, hostEnables, hostRunning>>
    /\ sent' = sent \cup {"isRunningState"}

\* if (isRunningState()) return true;
PollStep(r) ==
    /\ pc = "poll"
    /\ nPoll < MaxPolls
    /\ nPoll' = nPoll + 1
    /\ lastCheck' = isRunningState(r)
    /\ sawRunning' = (sawRunning \/ lastCheck')
    /\ IF lastCheck'
       THEN /\ pc' = "done"
            /\ result' = "true"
       ELSE /\ pc' = "retry"
            /\ result' = result
    /\ UNCHANGED xvars
    /\ UNCHANGED <<handle_, timeout, retryInterval, clock, start, lastRetry,
                   now, elapsed, pingOk, settled, nPing, nEnable, nEnableThrew,
                   nFinal, lastEnable, hostMode, hostEnables, hostRunning>>
    /\ sent' = sent \cup {"isRunningState"}

\* mutant: the enable command is re-sent in every iteration
RetryDueAlways(n, l, R) == TRUE

\* the re-assert condition
RetryDue(n, l, R) == n - l >= R

\* mutant: a re-assert that threw also restarts the retry interval
RetryAfterThrowAdvances(l, n) == n

\* what a re-assert that threw leaves in lastRetry
RetryAfterThrow(l, n) == l

\* mutant: no try/catch around the re-assert, its exception reaches the caller
RetryStepPropagates(r, d) ==
    /\ pc = "retry"
    /\ RetryDue(now, lastRetry, retryInterval)
    /\ nEnable' = nEnable + 1
    /\ clock' = clock + d
    /\ hostEnables' = hostEnables + 1
    /\ hostRunning' = (hostRunning \/ (hostMode = "lossy" /\ Delivered(hostEnables')))
    /\ IF checkResult(r) = "ok"
       THEN /\ lastRetry' = now
            /\ lastEnable' = "ok"
            /\ nEnableThrew' = nEnableThrew
            /\ pc' = "sleep"
            /\ result' = result
       ELSE /\ lastRetry' = lastRetry
            /\ lastEnable' = "threw"
            /\ nEnableThrew' = nEnableThrew + 1
            /\ pc' = "done"
            /\ result' = "throw"
    /\ UNCHANGED xvars
    /\ UNCHANGED <<handle_, timeout, retryInterval, start, now, elapsed,
                   pingOk, settled, nPing, nPoll, nFinal, sawRunning, lastCheck,
                   hostMode>>
    /\ sent' = sent \cup {"setStreamingMode(true)"}

\* if (elapsedSinceRetry >= retryInterval) try { setStreamingMode(true); lastRetry = now; } catch (...) {}
RetryStep(r, d) ==
    /\ pc = "retry"
    /\ RetryDue(now, lastRetry, retryInterval)
    /\ nEnable' = nEnable + 1
    /\ clock' = clock + d
    /\ hostEnables' = hostEnables + 1
    /\ hostRunning' = (hostRunning \/ (hostMode = "lossy" /\ Delivered(hostEnables')))
    /\ IF checkResult(r) = "ok"
       THEN /\ lastRetry' = now
            /\ lastEnable' = "ok"
            /\ nEnableThrew' = nEnableThrew
       ELSE /\ lastRetry' = RetryAfterThrow(lastRetry, now)
            /\ lastEnable' = "threw"
            /\ nEnableThrew' = nEnableThrew + 1
    /\ pc' = "sleep"
    /\ UNCHANGED xvars
    /\ UNCHANGED <<handle_, timeout, retryInterval, start, now, elapsed, result,
                   pingOk, settled, nPing, nPoll, nFinal, sawRunning, lastCheck,
                   hostMode>>
    /\ sent' = sent \cup {"setStreamingMode(true)"}

\* the re-assert is not due in this iteration
RetrySkip ==
    /\ pc = "retry"
    /\ ~RetryDue(now, lastRetry, retryInterval)
    /\ pc' = "sleep"
    /\ UNCHANGED xvars
    /\ UNCHANGED <<handle_, timeout, retryInterval, clock, start, lastRetry,
                   now, elapsed, result, pingOk, settled, nPing, nEnable,
                   nEnableThrew, nPoll, nFinal, sawRunning, lastCheck,
                   lastEnable, hostMode, hostEnables, hostRunning>>
    /\ UNCHANGED sent

\* mutant: the loop does not wait between two polls
SleepTimeZero(remaining) == 0

\* duration asked of the sleep at the end of an iteration
SleepTime(remaining) == Min(pollInterval, remaining)

\* remaining = timeout - elapsed; sleep_for(min(pollInterval, remaining)) or break
SleepStep(j) ==
    /\ pc = "sleep"
    /\ LET remaining == timeout - elapsed IN
       IF remaining > 0
       THEN /\ clock' = clock + SleepTime(remaining) + j
            /\ pc' = "loop"
       ELSE /\ clock' = clock
            /\ pc' = "final"
    /\ UNCHANGED xvars
    /\ UNCHANGED <<handle_, timeout, retryInterval, start, lastRetry, now,
                   elapsed, result, pingOk, settled, nPing, nEnable,
                   nEnableThrew, nPoll, nFinal, sawRunning, lastCheck,
                   lastEnable, hostMode, hostEnables, hostRunning>>
    /\ UNCHANGED sent

\* mutant: timeout is declared without the last check
FinalCheckSkipped(r) ==
    /\ pc = "final"
    /\ result' = "false"
    /\ pc' = "done"
    /\ UNCHANGED xvars
    /\ UNCHANGED <<handle_, timeout, retryInterval, clock, start, lastRetry,
                   now, elapsed, pingOk, settled, nPing, nEnable, nEnableThrew,
                   nPoll, nFinal, sawRunning, lastCheck, lastEnable, hostMode,
                   hostEnables, hostRunning>>
    /\ UNCHANGED sent

\* mutant: a timeout revokes the streaming-on request
FinalCheckRevoking(r) ==
    /\ pc = "final"
    /\ nFinal' = nFinal + 1
    /\ lastCheck' = isRunningState(r)
    /\ sawRunning' = (sawRunning \/ lastCheck')
    /\ result' = IF lastCheck' THEN "true" ELSE "false"
    /\ pc' = "done"
    /\ sent' = IF lastCheck' THEN sent \cup {"isRunningState"}
               ELSE sent \cup {"isRunningState", "setStreamingMode(false)"}
    /\ UNCHANGED xvars
    /\ UNCHANGED <<handle_, timeout, retryInterval, clock, start, lastRetry,
                   now, elapsed, pingOk, settled, nPing, nEnable, nEnableThrew,
                   nPoll, lastEnable, hostMode, hostEnables, hostRunning>>

\* return isRunningState();
FinalCheck(r) ==
    /\ pc = "final"
    /\ nFinal' = nFinal + 1
    /\ lastCheck' = isRunningState(r)
    /\ sawRunning' = (sawRunning \/ lastCheck')
    /\ result' = IF lastCheck' THEN "true" ELSE "false"
    /\ pc' = "done"
    /\ UNCHANGED xvars
    /\ UNCHANGED <<handle_, timeout, retryInterval, clock, start, lastRetry,
                   now, elapsed, pingOk, settled, nPing, nEnable, nEnableThrew,
                   nPoll, lastEnable, hostMode, hostEnables, hostRunning>>
    /\ sent' = sent \cup {"isRunningState"}

waitForStreamingReady ==
    \/ \E T \in Timeouts, R \in RetryIntervals : Call(T, R)
    \/ \E r \in ProHandResult, d \in Delays : PingStep(r, d)
    \/ \E j \in Delays : SettleStep(j)
    \/ LoopHead
    \/ \E r \in NativeRunningState : PollStep(r)
    \/ \E r \in ProHandResult, d \in Delays : RetryStep(r, d)
    \/ RetrySkip
    \/ \E j \in Delays : SleepStep(j)
    \/ \E r \in NativeRunningState : FinalCheck(r)

Next ==
    \/ MoveFrom
    \/ waitForStreamingReady

Spec == Init /\ [][Next]_vars

\* the calling thread keeps running: every step that is enabled is taken
FairSpec == Init /\ [][Next]_vars /\ WF_vars(waitForStreamingReady)

SpecLossy == InitLossy /\ [][Next]_vars

TypeOK ==
    /\ pc \in {"idle", "ping", "settle", "loop", "poll", "retry", "sleep", "final", "done"}
    /\ result \in {"none", "true", "false", "throw"}
    /\ clock \in Nat
    /\ (pc = "done") = (result # "none")
    /\ (pc = "poll" => nPoll < MaxPolls)

(***************************************************************************)
(* Readiness state machine: the state the control position stands for      *)
(***************************************************************************)
ReadinessState ==
    CASE pc \in {"idle", "ping"} -> "Disabled"
      [] pc = "settle" -> "Enabling"
      [] pc \in {"loop", "poll", "retry", "sleep", "final"} -> "Verifying"
      [] pc = "done" -> IF result = "true" THEN "Ready"
                        ELSE IF result = "false" /\ pingOk THEN "TimedOut"
                        ELSE "Disabled"

ReadinessTransitions ==
    {<<"Disabled", "Enabling">>, <<"Enabling", "Verifying">>,
     <<"Verifying", "Verifying">>, <<"Verifying", "Ready">>,
     <<"Verifying", "TimedOut">>}

Returned == pc = "done" /\ result \in {"true", "false"}

(***************************************************************************)
(* Properties                                                              *)
(***************************************************************************)

\* C1: a call that returns does so no later than timeout plus one poll
\* interval after it was invoked (the invocation is at clock = 0).
C1_ReturnsWithinTimeoutPlusPoll ==
    Returned => clock <= timeout + pollInterval

\* C2: every invocation on a live handle leaves its poll loop and returns
\* true or false, whatever the host answers.
C2_Terminates ==
    (pc = "ping") ~> Returned

C2_Witness ==
    /\ Returned
    /\ nPoll >= 3
    /\ nEnableThrew >= 1
    /\ nFinal = 1

C4_ResultReflectsChecks ==
    /\ (pc = "done" /\ result = "true") => (sawRunning /\ lastCheck)
    /\ (pc = "done" /\ result = "false") =>
          (~pingOk \/ (~sawRunning /\ nFinal = 1 /\ ~lastCheck))

C4_Witness ==
    /\ pc = "done"
    /\ result = "false"
    /\ pingOk
    /\ nPoll >= 2
    /\ nFinal = 1

\* C5: the control position only moves along Disabled -> Enabling ->
\* Verifying -> Ready | TimedOut, re-asserts happen inside Verifying, and a
\* failed ping leaves the state Disabled.
C5_RefinesReadinessMachine ==
    [][/\ (ReadinessState' # ReadinessState =>
              <<ReadinessState, ReadinessState'>> \in ReadinessTransitions)
       /\ (nEnable' > nEnable =>
              (ReadinessState = "Verifying" /\ ReadinessState' = "Verifying"))
       /\ ((pc = "ping" /\ ~pingOk') => ReadinessState' = "Disabled")]_vars

C5_Witness ==
    /\ ReadinessState = "Ready"
    /\ nEnable >= 1
    /\ nPoll >= 2

\* C6 (as claimed): once the ping has succeeded, a streaming-on command has
\* been sent by the time the settle delay is over or a status check is made.
C6_EnableBeforeSettle ==
    (pingOk /\ (settled \/ nPoll > 0 \/ nFinal > 0)) => nEnable >= 1

\* C6 (amended): the call sends streaming-on only after the settle delay,
\* after a status check of the same iteration that was not Running, and not
\* before retryInterval has elapsed since the ping.
C6_EnableOnlyAfterSettleAndPoll ==
    [][nEnable' > nEnable =>
          /\ settled
          /\ nPoll >= nEnable'
          /\ ~lastCheck
          /\ clock - start >= settleDelay
          /\ clock - start >= retryInterval]_vars

C6_Witness ==
    /\ nEnable = 1
    /\ nPoll = 3
    /\ pc = "sleep"
    /\ retryInterval = 3 * TimeUnit

\* C7: an invocation that passed the ping and returned false has sent
\* setStreamingMode(true) at least once.
C7_TimeoutHasSentEnable ==
    (pc = "done" /\ pingOk /\ result = "false") => nEnable >= 1

\* C8: a failed ping makes the call return false at once: no enable, no
\* settle delay, no status check.
C8_FailedPingFailsFast ==
    (nPing >= 1 /\ ~pingOk) =>
        /\ pc = "done"
        /\ result = "false"
        /\ nEnable = 0
        /\ ~settled
        /\ nPoll = 0
        /\ nFinal = 0
        /\ clock \in Delays

C8_Witness ==
    /\ pc = "done"
    /\ nPing = 1
    /\ ~pingOk
    /\ result = "false"

\* C9: a re-assert that throws is swallowed: the loop goes on to its sleep,
\* the call never ends by that exception, and it ends only on a Running
\* check or past the deadline.
C9_ReassertFailureSwallowed ==
    /\ [][nEnableThrew' > nEnableThrew => (pc' = "sleep" /\ result' = "none")]_vars
    /\ []((pc = "done" /\ nEnableThrew > 0) =>
             (Returned /\ (lastCheck \/ elapsed >= timeout)))

C9_Witness ==
    /\ pc = "done"
    /\ nEnableThrew >= 2
    /\ nEnable > nEnableThrew
    /\ nPoll > nEnable

\* C10: leaving the loop on the deadline is followed by exactly one more
\* status check, whose value is the value returned; false after a good ping
\* is returned only by that check.
C10_OneFinalCheck ==
    /\ nFinal <= 1
    /\ (pc = "final" => (elapsed >= timeout /\ ~sawRunning /\ nFinal = 0))
    /\ (nFinal = 1 =>
           (pc = "done" /\ result = (IF lastCheck THEN "true" ELSE "false")))
    /\ ((pc = "done" /\ pingOk /\ elapsed >= timeout) => nFinal = 1)
    /\ ((pc = "done" /\ pingOk /\ result = "false") => (nFinal = 1 /\ ~lastCheck))

C10_Witness ==
    /\ pc = "done"
    /\ nFinal = 1
    /\ result = "true"
    /\ nPoll >= 1

(***************************************************************************)
(* Single operations of ProHandClient and ProGloveClient                   *)
(***************************************************************************)
\* array sizes tried: 0 and every size within MaxLenSlack of an expected one
MaxLenSlack == 1
ExpectedSizes == {2, 16, 20}
ArgLens == {0} \cup {n + d : n \in ExpectedSizes, d \in (0 - MaxLenSlack)..MaxLenSlack}

TwoArrayOps == {"sendRotaryCommands", "sendLinearCommands",
                "sendRotaryStreams", "sendLinearStreams"}
OneArrayOps == {"sendWristCommands", "sendWristStreams", "sendHandCommands",
                "sendHandStreams", "sendZeroCalibration"}
ThreeArrayOps == {"setWristLimits"}
ArrayOps == TwoArrayOps \cup OneArrayOps \cup ThreeArrayOps
StreamOps == {"sendRotaryStreams", "sendLinearStreams", "sendWristStreams",
              "sendHandStreams"}
HandOps == ArrayOps \cup {"sendPing", "setStreamingMode", "isConnected",
                          "tryRecvStatus", "isRunningState"}
GloveOps == {"sendPing", "isConnected", "tryRecvStatus"}

\* the arrays an operation takes, as a set of tuples of sizes
OpArgs(op) ==
    IF op \in TwoArrayOps THEN {<<a, b>> : a \in ArgLens, b \in ArgLens}
    ELSE IF op \in OneArrayOps THEN {<<a>> : a \in ArgLens}
    ELSE IF op \in ThreeArrayOps
         THEN {<<a, b, c>> : a \in ArgLens, b \in ArgLens, c \in ArgLens}
    ELSE IF op = "setStreamingMode" THEN {<<0>>, <<1>>}   \* enabled ? 1 : 0
    ELSE {<<>>}

\* mutant: the size test of the two-array operations uses && instead of ||
ArityOkAnd(op, lens) ==
    CASE op \in {"sendRotaryCommands", "sendRotaryStreams"} ->
             ~(lens[1] # 16 /\ lens[2] # 16)
      [] op \in {"sendLinearCommands", "sendLinearStreams"} ->
             ~(lens[1] # 2 /\ lens[2] # 2)
      [] op \in {"sendWristCommands", "sendWristStreams"} -> ~(lens[1] # 2)
      [] op \in {"sendHandCommands", "sendHandStreams"} -> ~(lens[1] # 20)
      [] op = "sendZeroCalibration" -> ~(lens[1] # 16)
      [] op = "setWristLimits" ->
             ~(lens[1] # 2 /\ lens[2] # 2 /\ lens[3] # 2)
      [] OTHER -> TRUE

\* the size test each operation makes before its native call
ArityOk(op, lens) ==
    CASE op \in {"sendRotaryCommands", "sendRotaryStreams"} ->
             ~(lens[1] # 16 \/ lens[2] # 16)
      [] op \in {"sendLinearCommands", "sendLinearStreams"} ->
             ~(lens[1] # 2 \/ lens[2] # 2)
      [] op \in {"sendWristCommands", "sendWristStreams"} -> ~(lens[1] # 2)
      [] op \in {"sendHandCommands", "sendHandStreams"} -> ~(lens[1] # 20)
      [] op = "sendZeroCalibration" -> ~(lens[1] # 16)
      [] op = "setWristLimits" ->
             ~(lens[1] # 2 \/ lens[2] # 2 \/ lens[3] # 2)
      [] OTHER -> TRUE

\* what each native function can return
NativeResults(op) ==
    CASE op = "isConnected" -> {1, 0}
      [] op = "tryRecvStatus" -> {1, 0, PROHAND_ERROR_NULL, PROHAND_ERROR_CONNECTION}
      [] op = "isRunningState" -> RunningStateResults
      [] OTHER -> ProHandResult

\* ProHandClient::checkResult: the text added to the exception
checkResultError(r) ==
    CASE r = PROHAND_ERROR_NULL -> "Null pointer error"
      [] r = PROHAND_ERROR_CONNECTION -> "Connection error"
      [] r = PROHAND_ERROR_INVALID_ARGUMENT -> "Invalid argument"
      [] r = PROHAND_ERROR_NOT_CONNECTED -> "Not connected"
      [] OTHER -> "Unknown error"

\* ProGloveResult
PROGLOVE_SUCCESS == 0
PROGLOVE_ERROR_NULL == 0 - 1
PROGLOVE_ERROR_CONNECTION == 0 - 2
PROGLOVE_ERROR_INVALID_ARGUMENT == 0 - 3
PROGLOVE_ERROR_NOT_CONNECTED == 0 - 4
PROGLOVE_ERROR_UNSUPPORTED == 0 - 5
PROGLOVE_ERROR_OTHER == 0 - 99

\* ProGloveClient::checkResult: the text added to the exception
gloveCheckResultError(r) ==
    CASE r = PROGLOVE_ERROR_NULL -> "Null pointer error"
      [] r = PROGLOVE_ERROR_CONNECTION -> "Connection error"
      [] r = PROGLOVE_ERROR_INVALID_ARGUMENT -> "Invalid argument"
      [] r = PROGLOVE_ERROR_NOT_CONNECTED -> "Not connected"
      [] r = PROGLOVE_ERROR_UNSUPPORTED -> "Unsupported operation"
      [] OTHER -> "Unknown error"

ResultError(class, r) ==
    IF class = "glove" THEN gloveCheckResultError(r) ELSE checkResultError(r)

Thrown(text) == [outcome |-> "throw", error |-> text, calls |-> 0, native |-> 0]
ThrownBy(class, r) ==
    [outcome |-> "throw", error |-> ResultError(class, r), calls |-> 1, native |-> r]
Returns(v, r) == [outcome |-> v, error |-> "", calls |-> 1, native |-> r]

\* mutant: a negative poll result is reported as "nothing available"
tryRecvStatusLenient(class, r) ==
    IF r > 0 THEN Returns("status", r) ELSE Returns("nullopt", r)

\* tryRecvStatus after checkHandle(): one native poll, then the three branches
tryRecvStatus(class, r) ==
    IF r > 0 THEN Returns("status", r)
    ELSE IF r = 0 THEN Returns("nullopt", r)
    ELSE ThrownBy(class, r)

\* isConnected(): its own null test, no exception
isConnected(h, r) ==
    IF ~h THEN [outcome |-> "false", error |-> "", calls |-> 0, native |-> 0]
    ELSE Returns(IF r # 0 THEN "true" ELSE "false", r)

\* ProGloveClient::sendPing after checkHandle(): if (result < 0) checkResult(...)
gloveSendPing(r) ==
    IF r < 0 THEN ThrownBy("glove", r) ELSE Returns("ok", r)

\* the native function a method calls
NativeFunction(class, op) ==
    IF class = "glove"
    THEN CASE op = "isConnected" -> "proglove_client_is_connected"
           [] op = "sendPing" -> "proglove_send_ping"
           [] op = "tryRecvStatus" -> "proglove_try_recv_status"
    ELSE CASE op = "isConnected" -> "prohand_client_is_connected"
           [] op = "sendPing" -> "prohand_send_ping"
           [] op = "setStreamingMode" -> "prohand_set_streaming_mode"
           [] op = "isRunningState" -> "prohand_is_running_state"
           [] op = "tryRecvStatus" -> "prohand_try_recv_status"
           [] op = "sendRotaryCommands" -> "prohand_send_rotary_commands"
           [] op = "sendLinearCommands" -> "prohand_send_linear_commands"
           [] op = "sendWristCommands" -> "prohand_send_wrist_command"
           [] op = "sendHandCommands" -> "prohand_send_hand_command"
           [] op = "sendZeroCalibration" -> "prohand_send_zero_calibration"
           [] op = "setWristLimits" -> "prohand_set_wrist_limits"
           [] op = "sendRotaryStreams" -> "prohand_send_rotary_streams"
           [] op = "sendLinearStreams" -> "prohand_send_linear_streams"
           [] op = "sendWristStreams" -> "prohand_send_wrist_streams"
           [] op = "sendHandStreams" -> "prohand_send_hand_streams"

\* the channel a native function works on, by its documentation
Channel(fn) ==
    CASE fn \in {"prohand_is_running_state", "prohand_try_recv_status",
                 "proglove_try_recv_status", "proglove_send_ping"} -> "status"
      [] fn \in {"prohand_send_rotary_streams", "prohand_send_linear_streams",
                 "prohand_send_wrist_streams", "prohand_send_hand_streams"} -> "streaming"
      [] fn \in {"prohand_client_is_connected", "proglove_client_is_connected",
                 "prohand_set_wrist_limits"} -> "none"
      [] OTHER -> "command"

\* mutant: setStreamingMode checks the status after its command
WrapperOutcomeVerifying(class, op, h, lens, r) ==
    IF checkHandle(h) = "throw" THEN Thrown("Client handle is null")
    ELSE IF checkResult(r) = "throw" THEN ThrownBy(class, r)
    ELSE [outcome |-> "ok", error |-> "", calls |-> 2, native |-> r]

\* a method of the wrapper, from its entry to its return or throw
WrapperOutcome(class, op, h, lens, r) ==
    IF op = "isConnected" THEN isConnected(h, r)
    ELSE IF checkHandle(h) = "throw" THEN Thrown("Client handle is null")
    ELSE IF ~ArityOk(op, lens) THEN Thrown("wrong number of elements")
    ELSE IF op = "tryRecvStatus" THEN tryRecvStatus(class, r)
    ELSE IF op = "isRunningState"
         THEN Returns(IF isRunningState(r) THEN "true" ELSE "false", r)
    ELSE IF class = "glove" /\ op = "sendPing" THEN gloveSendPing(r)
    ELSE IF checkResult(r) = "throw" THEN ThrownBy(class, r)
    ELSE Returns("ok", r)

\* mutant: a streaming send is refused until readiness was confirmed
MethodCallGated(class, op, h, rdy, lens, r) ==
    IF op \in StreamOps /\ h /\ ~rdy
    THEN Thrown("Not connected")
    ELSE WrapperOutcome(class, op, h, lens, r)

\* a method call in a client whose readiness is rdy: readiness is not consulted
MethodCall(class, op, h, rdy, lens, r) == WrapperOutcome(class, op, h, lens, r)

\* mutant: a call also re-sends the enable command
OperationResending(class, op, lens, r) ==
    /\ LET o == MethodCall(class, op, handle_, ready, lens, r) IN
        /\ opClass' = class
        /\ opName' = op
        /\ opLens' = lens
        /\ opHandleOk' = handle_
        /\ opNativeCalls' = o.calls
        /\ opNative' = o.native
        /\ opOutcome' = o.outcome
        /\ opError' = o.error
    /\ nEnable' = nEnable + 1
    /\ hostEnables' = hostEnables + 1
    /\ UNCHANGED ready
    /\ UNCHANGED dmvars
    /\ UNCHANGED ccvars
    /\ UNCHANGED lcvars
    /\ UNCHANGED stvars
    /\ UNCHANGED tlvars
    /\ UNCHANGED <<pc, handle_, timeout, retryInterval, clock, start, lastRetry,
                   now, elapsed, result, pingOk, settled, nPing, nEnableThrew,
                   nPoll, nFinal, sawRunning, lastCheck, lastEnable, hostMode,
                   hostRunning>>
    /\ UNCHANGED sent

\* one call of a method of the (single) client object
Operation(class, op, lens, r) ==
    /\ LET o == MethodCall(class, op, handle_, ready, lens, r) IN
        /\ opClass' = class
        /\ opName' = op
        /\ opLens' = lens
        /\ opHandleOk' = handle_
        /\ opNativeCalls' = o.calls
        /\ opNative' = o.native
        /\ opOutcome' = o.outcome
        /\ opError' = o.error
    /\ UNCHANGED ready
    /\ UNCHANGED exceptOps

\* waitForStreamingReady seen from its caller: checkHandle(), then true or false
WaitOperation(b) ==
    /\ pc = "idle"
    /\ opName \in {"none", "waitForStreamingReady"}
    /\ opClass' = "hand"
    /\ opName' = "waitForStreamingReady"
    /\ opLens' = <<>>
    /\ opHandleOk' = handle_
    /\ opNativeCalls' = 0
    /\ opNative' = 0
    /\ IF checkHandle(handle_) = "throw"
       THEN /\ opOutcome' = "throw"
            /\ opError' = "Client handle is null"
            /\ ready' = ready
       ELSE /\ opOutcome' = (IF b THEN "true" ELSE "false")
            /\ opError' = ""
            /\ ready' = (ready \/ b)
    /\ UNCHANGED exceptOps

\* A run observes one method call, made after any moves and readiness waits.

\* the results to consider for a call: none but 0 when the method throws
\* before it reaches its native function
ResultsOf(op, lens) ==
    IF (op # "isConnected" /\ checkHandle(handle_) = "throw") \/ ~ArityOk(op, lens)
    THEN {0}
    ELSE NativeResults(op)

HandOperation ==
    /\ pc = "idle"
    /\ opName \in {"none", "waitForStreamingReady"}
    /\ \E op \in HandOps : \E lens \in OpArgs(op) : \E r \in ResultsOf(op, lens) :
        Operation("hand", op, lens, r)

GloveOperation ==
    /\ pc = "idle"
    /\ opName \in {"none", "waitForStreamingReady"}
    /\ \E op \in GloveOps : \E r \in ResultsOf(op, <<>>) :
        Operation("glove", op, <<>>, r)

NextOps ==
    \/ MoveFrom
    \/ HandOperation
    \/ GloveOperation
    \/ \E b \in BOOLEAN : WaitOperation(b)

SpecOps == Init /\ [][NextOps]_vars

\* C11: a call of a pose, calibration or wrist-limit operation with an array
\* of the wrong size throws and invokes no native function.
C11_WrongArityThrowsBeforeSend ==
    (opName \in ArrayOps /\ opHandleOk /\
        \E i \in 1..Len(opLens) :
            opLens[i] # (CASE opName \in {"sendRotaryCommands", "sendRotaryStreams",
                                           "sendZeroCalibration"} -> 16
                           [] opName \in {"sendHandCommands", "sendHandStreams"} -> 20
                           [] OTHER -> 2))
    => (opOutcome = "throw" /\ opNativeCalls = 0)

C11_Witness ==
    /\ opName = "sendRotaryStreams"
    /\ opLens = <<16, 15>>
    /\ opHandleOk
    /\ opOutcome = "throw"
    /\ opNativeCalls = 0

(***************************************************************************)
(* The streaming demo programs: main() of cyclic_motion, test_hand and     *)
(* kapandji, as the sequence of client calls each makes                    *)
(***************************************************************************)
\* iterations of a streaming loop that are followed
MaxDemoIter == 2
\* the --cycles values test_hand is run with, and the steps a sampled sine takes
MaxCycles == 1
MaxLevel == 2

Demos == {"cyclic_motion", "test_hand", "kapandji"}

Levels == 0..MaxLevel

\* the command lines a demo is run with
DemoOptions(d) ==
    CASE d = "cyclic_motion" ->
            {[excludeWrist |-> ew, includeThumb |-> it, yaml |-> TRUE, cycles |-> 0] :
                ew \in BOOLEAN, it \in BOOLEAN}
      [] d = "test_hand" ->
            {[excludeWrist |-> FALSE, includeThumb |-> FALSE, yaml |-> TRUE, cycles |-> c] :
                c \in 0..MaxCycles}
      [] d = "kapandji" ->
            {[excludeWrist |-> FALSE, includeThumb |-> FALSE, yaml |-> y, cycles |-> 0] :
                y \in BOOLEAN}

\* streaming sends made once, right after readiness was confirmed
PreSendsNone(d, o) == <<>>

PreSends(d, o) ==
    IF d = "test_hand" THEN <<"sendHandStreams", "sendWristStreams">> ELSE <<>>

\* streaming sends of one iteration of the streaming loop, in program order
BodySends(d, o) ==
    CASE d = "cyclic_motion" -> <<"sendWristStreams", "sendHandStreams">>
      [] d = "test_hand" -> <<"sendHandStreams", "sendWristStreams",
                              "sendHandStreams", "sendWristStreams">>
      [] d = "kapandji" -> <<"sendWristStreams", "sendHandStreams">>

\* streaming sends of the return to zero
PostSends(d, o) ==
    CASE d = "cyclic_motion" -> IF o.excludeWrist THEN <<"sendHandStreams">>
                                ELSE <<"sendHandStreams", "sendWristStreams">>
      [] d = "test_hand" -> <<"sendHandStreams", "sendWristStreams">>
      [] d = "kapandji" -> <<"sendHandStreams">>

Block(d, o, at) ==
    CASE at = "pre" -> PreSends(d, o)
      [] at = "body" -> BodySends(d, o)
      [] at = "post" -> PostSends(d, o)

\* the block that follows a finished block
AfterBlock(at) ==
    CASE at = "pre" -> "loop"
      [] at = "body" -> "loop"
      [] at = "post" -> "disable"

(* What a send carries: positions (angles, zero iff the radian value is    *)
(* zero) and the torque in hundredths                                      *)
NoArgs == [pos |-> <<>>, torque |-> 0]
Hand(positions, torque) == [pos |-> positions, torque |-> torque]
Wrist(positions) == [pos |-> positions, torque |-> 0]

\* std::vector<float> zeroPositions(20, 0.0f)
zeroPositions == [i \in 1..20 |-> 0]
zeroWristPositions == <<0, 0>>

\* cyclic_motion: "Abduction is always disabled"
includeAbductionOn == TRUE
includeAbduction == FALSE

\* cyclic_motion: the scaled sine of a joint's phase at the sampled time s; the
\* phase is shifted by finger and by joint
Wave(s, f, j) == (s + f + j) % (MaxLevel + 1)

\* cyclic_motion: the four positions pushed for finger f (0 = thumb)
FingerPositions(o, s, f) ==
    LET pushed == [k \in 1..4 |->
                     IF ~includeAbduction /\ k - 1 = 0 /\ f # 0
                     THEN 0
                     ELSE Wave(s, f, k - 1)]
    IN  IF ~o.includeThumb /\ f = 0
        THEN [pushed EXCEPT ![2] = 0, ![3] = 0, ![4] = 0]
        ELSE pushed

\* cyclic_motion: positions of one iteration, thumb first
CyclicPositions(o, s) ==
    FingerPositions(o, s, 0) \o FingerPositions(o, s, 1) \o FingerPositions(o, s, 2)
        \o FingerPositions(o, s, 3) \o FingerPositions(o, s, 4)

\* cyclic_motion: the wrist positions of one iteration
CyclicWrist(o, s, seg) ==
    IF ~o.excludeWrist
    THEN IF seg = 0 THEN <<Wave(s, 0, 0), 0>> ELSE <<0, Wave(s, 0, 0)>>
    ELSE <<0, 0>>

\* test_hand: the joint tested in iteration k of the loops, cycles per joint
JointIdx(k, cycles) == (k - 1) \div cycles

\* test_hand: positions of the move to the maximum or minimum of joint jointIdx,
\* in degrees
TestPose(jointIdx, toMax) ==
    LET f == jointIdx \div 4
        j == jointIdx % 4
        minDeg == IF j = 0 /\ f # 0 THEN 0 - 30 ELSE 0
        maxDeg == IF j = 0 /\ f # 0 THEN 30 ELSE 90
        flexed == IF j = 3 /\ f # 0
                  THEN [zeroPositions EXCEPT ![jointIdx] = 90]
                  ELSE zeroPositions
    IN  [flexed EXCEPT ![jointIdx + 1] = IF toMax THEN maxDeg ELSE minDeg]

\* what send number idx of block at carries, in iteration k with sample smp
SendArgs(d, o, at, idx, k, smp) ==
    CASE d = "cyclic_motion" ->
            IF at = "body"
            THEN IF idx = 1 THEN Wrist(CyclicWrist(o, smp.level, smp.seg))
                 ELSE Hand(CyclicPositions(o, smp.level), 100)
            ELSE IF idx = 1 THEN Hand(zeroPositions, 100)
                 ELSE Wrist(zeroWristPositions)
      [] d = "test_hand" ->
            IF at = "body"
            THEN CASE idx = 1 -> Hand(TestPose(JointIdx(k, o.cycles), TRUE), 45)
                   [] idx = 3 -> Hand(TestPose(JointIdx(k, o.cycles), FALSE), 45)
                   [] OTHER -> Wrist(zeroWristPositions)
            ELSE IF idx = 1 THEN Hand(zeroPositions, 45)
                 ELSE Wrist(zeroWristPositions)
      [] d = "kapandji" ->
            IF at = "body"
            THEN IF idx = 1 THEN Wrist(<<smp.level, smp.level>>)
                 ELSE Hand([i \in 1..20 |-> smp.level], 45)
            ELSE Hand(zeroPositions, 45)

Called(m, a, out) == Append(dTrace, <<m, a, out>>)

\* catch (const SdkException&) { ...; return 1; }
Caught ==
    /\ dpc' = "exit"
    /\ dExit' = 1

\* the program is started with its command line
DemoStart(d, o) ==
    /\ dpc = "start"
    /\ demo' = d
    /\ dOpts' = o
    /\ dpc' = IF d = "kapandji" /\ o.yaml THEN "loadYaml" ELSE "construct"
    /\ UNCHANGED <<dIdx, dIter, dExit, dTrace, dArgs, dSample>>
    /\ UNCHANGED exceptDemo

\* kapandji: YAML::LoadFile(yamlConfig); a failure is a std::exception
DemoLoadYaml(ok) ==
    /\ dpc = "loadYaml"
    /\ IF ok THEN dpc' = "construct" /\ dExit' = dExit ELSE Caught
    /\ UNCHANGED <<demo, dOpts, dIdx, dIter, dTrace, dArgs, dSample>>
    /\ UNCHANGED exceptDemo

\* ProHandClient client(...)
DemoConstruct(ok) ==
    /\ dpc = "construct"
    /\ dTrace' = Called("ProHandClient", "", IF ok THEN "ok" ELSE "throw")
    /\ dArgs' = Append(dArgs, NoArgs)
    /\ IF ~ok THEN Caught
       ELSE IF demo = "kapandji" /\ ~dOpts.yaml
            THEN dpc' = "exit" /\ dExit' = 0
            ELSE dpc' = "ping" /\ dExit' = dExit
    /\ UNCHANGED <<demo, dOpts, dIdx, dIter, dSample>>
    /\ UNCHANGED exceptDemo

\* client.sendPing();
DemoPing(ok) ==
    /\ dpc = "ping"
    /\ dTrace' = Called("sendPing", "", IF ok THEN "ok" ELSE "throw")
    /\ dArgs' = Append(dArgs, NoArgs)
    /\ IF ok THEN dpc' = "enable" /\ dExit' = dExit ELSE Caught
    /\ UNCHANGED <<demo, dOpts, dIdx, dIter, dSample>>
    /\ UNCHANGED exceptDemo

\* client.setStreamingMode(true);
DemoEnable(ok) ==
    /\ dpc = "enable"
    /\ dTrace' = Called("setStreamingMode", "true", IF ok THEN "ok" ELSE "throw")
    /\ dArgs' = Append(dArgs, NoArgs)
    /\ IF ok THEN dpc' = "wait" /\ dExit' = dExit ELSE Caught
    /\ UNCHANGED <<demo, dOpts, dIdx, dIter, dSample>>
    /\ UNCHANGED exceptDemo

\* mutant: the result of waitForStreamingReady is not tested
DemoWaitUnchecked(b) ==
    /\ dpc = "wait"
    /\ dTrace' = Called("waitForStreamingReady", "", IF b THEN "true" ELSE "false")
    /\ dArgs' = Append(dArgs, NoArgs)
    /\ dpc' = "pre"
    /\ dIdx' = 1
    /\ dExit' = dExit
    /\ UNCHANGED <<demo, dOpts, dIter, dSample>>
    /\ UNCHANGED exceptDemo

\* if (!client.waitForStreamingReady(...)) { ...; return 1; }
DemoWait(b) ==
    /\ dpc = "wait"
    /\ dTrace' = Called("waitForStreamingReady", "", IF b THEN "true" ELSE "false")
    /\ dArgs' = Append(dArgs, NoArgs)
    /\ IF b
       THEN /\ dpc' = "pre"
            /\ dExit' = dExit
       ELSE IF demo = "kapandji"
            THEN /\ dpc' = "exit"
                 /\ dExit' = 1
            ELSE /\ dpc' = "disableOnFail"
                 /\ dExit' = dExit
    /\ dIdx' = 1
    /\ UNCHANGED <<demo, dOpts, dIter, dSample>>
    /\ UNCHANGED exceptDemo

\* cyclic_motion, test_hand: client.setStreamingMode(false); return 1;
DemoDisableOnFail(ok) ==
    /\ dpc = "disableOnFail"
    /\ dTrace' = Called("setStreamingMode", "false", IF ok THEN "ok" ELSE "throw")
    /\ dArgs' = Append(dArgs, NoArgs)
    /\ dpc' = "exit"
    /\ dExit' = 1
    /\ UNCHANGED <<demo, dOpts, dIdx, dIter, dSample>>
    /\ UNCHANGED exceptDemo

\* the next streaming send of the current block
DemoSend(ok) ==
    /\ dpc \in {"pre", "body", "post"}
    /\ dIdx <= Len(Block(demo, dOpts, dpc))
    /\ dTrace' = Called(Block(demo, dOpts, dpc)[dIdx], dpc, IF ok THEN "ok" ELSE "throw")
    /\ dArgs' = Append(dArgs, SendArgs(demo, dOpts, dpc, dIdx, dIter, dSample))
    /\ IF ok THEN dpc' = dpc /\ dIdx' = dIdx + 1 /\ dExit' = dExit
       ELSE Caught /\ dIdx' = dIdx
    /\ UNCHANGED <<demo, dOpts, dIter, dSample>>
    /\ UNCHANGED exceptDemo

\* the end of a block of sends
DemoBlockEnd ==
    /\ dpc \in {"pre", "body", "post"}
    /\ dIdx > Len(Block(demo, dOpts, dpc))
    /\ dpc' = AfterBlock(dpc)
    /\ dIdx' = 1
    /\ UNCHANGED <<demo, dOpts, dIter, dExit, dTrace, dArgs, dSample>>
    /\ UNCHANGED exceptDemo

\* does the streaming loop run once more: test_hand counts 20 joints times
\* cycles, the other two run until a time is over
LoopGoesOn(d, o, k, more) ==
    IF d = "test_hand" THEN k < 20 * o.cycles
    ELSE more /\ k < MaxDemoIter

\* head of the streaming loop: another iteration, at sampled time s, or the
\* loop is over
DemoLoopHead(more, s, seg) ==
    /\ dpc = "loop"
    /\ IF LoopGoesOn(demo, dOpts, dIter, more)
       THEN /\ dpc' = "body"
            /\ dIter' = dIter + 1
            /\ dSample' = IF demo = "test_hand" THEN dSample
                          ELSE [level |-> s, seg |-> IF demo = "cyclic_motion" THEN seg ELSE 0]
       ELSE /\ dpc' = "post"
            /\ dIter' = dIter
            /\ dSample' = dSample
    /\ UNCHANGED <<demo, dOpts, dIdx, dExit, dTrace, dArgs>>
    /\ UNCHANGED exceptDemo

\* client.setStreamingMode(false); return 0;
DemoDisable(ok) ==
    /\ dpc = "disable"
    /\ dTrace' = Called("setStreamingMode", "false", IF ok THEN "ok" ELSE "throw")
    /\ dArgs' = Append(dArgs, NoArgs)
    /\ IF ok THEN dpc' = "exit" /\ dExit' = 0 ELSE Caught
    /\ UNCHANGED <<demo, dOpts, dIdx, dIter, dSample>>
    /\ UNCHANGED exceptDemo

NextDemo ==
    \/ \E d \in Demos : \E o \in DemoOptions(d) : DemoStart(d, o)
    \/ \E ok \in BOOLEAN : DemoLoadYaml(ok)
    \/ \E ok \in BOOLEAN : DemoConstruct(ok)
    \/ \E ok \in BOOLEAN : DemoPing(ok)
    \/ \E ok \in BOOLEAN : DemoEnable(ok)
    \/ \E b \in BOOLEAN : DemoWait(b)
    \/ \E ok \in BOOLEAN : DemoDisableOnFail(ok)
    \/ \E ok \in BOOLEAN : DemoSend(ok)
    \/ DemoBlockEnd
    \/ \E more \in BOOLEAN, s \in Levels, seg \in 0..1 : DemoLoopHead(more, s, seg)
    \/ \E ok \in BOOLEAN : DemoDisable(ok)

SpecDemo == Init /\ [][NextDemo]_vars

IsStreamSend(e) == e[1] \in {"sendHandStreams", "sendWristStreams",
                             "sendRotaryStreams", "sendLinearStreams"}

\* C12: in the gated demos a streaming send is made only after an earlier
\* waitForStreamingReady of the same run returned true.
C12_StreamOnlyAfterReady ==
    \A i \in 1..Len(dTrace) :
        IsStreamSend(dTrace[i]) =>
            \E j \in 1..(i - 1) : dTrace[j] = <<"waitForStreamingReady", "", "true">>

C12_Witness ==
    /\ demo = "kapandji"
    /\ dExit = 0
    /\ \E i \in 1..Len(dTrace) : IsStreamSend(dTrace[i])

(***************************************************************************)
(* Two caller threads issuing command requests on the same client          *)
(***************************************************************************)
\* calls each thread makes
MaxCalls == 2

Threads == 1..2

CommandOps == {"sendPing", "setStreamingMode"}

\* the callers agree on using a mutex around every call, or on using none
ConcStart(locked) ==
    /\ cMode = "none"
    /\ cMode' = IF locked THEN "locked" ELSE "unlocked"
    /\ UNCHANGED <<mutex, tpc, tReq, tOut, tCalls, inNative>>
    /\ UNCHANGED exceptConc

\* a thread decides to call m
ConcIssue(t, m) ==
    /\ cMode # "none"
    /\ tpc[t] = "idle"
    /\ tCalls[t] < MaxCalls
    /\ tReq' = [tReq EXCEPT ![t] = m]
    /\ tpc' = [tpc EXCEPT ![t] = IF cMode = "locked" THEN "waiting" ELSE "entry"]
    /\ UNCHANGED <<cMode, mutex, tOut, tCalls, inNative>>
    /\ UNCHANGED exceptConc

\* external synchronization: the thread takes the callers' mutex
ConcLock(t) ==
    /\ tpc[t] = "waiting"
    /\ mutex = 0
    /\ mutex' = t
    /\ tpc' = [tpc EXCEPT ![t] = "entry"]
    /\ UNCHANGED <<cMode, tReq, tOut, tCalls, inNative>>
    /\ UNCHANGED exceptConc

\* mutant: the method starts the native call and returns without its result
ConcCallBeginDetached(t) ==
    /\ tpc[t] = "entry"
    /\ inNative' = inNative \cup {t}
    /\ tOut' = [tOut EXCEPT ![t] = "ok"]
    /\ tpc' = [tpc EXCEPT ![t] = "returned"]
    /\ UNCHANGED <<cMode, mutex, tReq, tCalls>>
    /\ UNCHANGED exceptConc

\* sendPing() / setStreamingMode(): checkHandle(), then the native call is
\* entered; the method holds no lock of its own and never refuses a call
ConcCallBegin(t) ==
    /\ tpc[t] = "entry"
    /\ IF checkHandle(handle_) = "throw"
       THEN /\ tOut' = [tOut EXCEPT ![t] = "throw"]
            /\ tpc' = [tpc EXCEPT ![t] = "returned"]
            /\ inNative' = inNative
       ELSE /\ inNative' = inNative \cup {t}
            /\ tpc' = [tpc EXCEPT ![t] = "native"]
            /\ tOut' = tOut
    /\ UNCHANGED <<cMode, mutex, tReq, tCalls>>
    /\ UNCHANGED exceptConc

\* the native call returns r; checkResult(r, ...)
ConcCallEnd(t, r) ==
    /\ tpc[t] = "native"
    /\ inNative' = inNative \ {t}
    /\ tOut' = [tOut EXCEPT ![t] = checkResult(r)]
    /\ tpc' = [tpc EXCEPT ![t] = "returned"]
    /\ UNCHANGED <<cMode, mutex, tReq, tCalls>>
    /\ UNCHANGED exceptConc

\* the caller goes on; a caller that holds the mutex gives it back
ConcRelease(t) ==
    /\ tpc[t] = "returned"
    /\ mutex' = IF mutex = t THEN 0 ELSE mutex
    /\ tCalls' = [tCalls EXCEPT ![t] = @ + 1]
    /\ tpc' = [tpc EXCEPT ![t] = "idle"]
    /\ UNCHANGED <<cMode, tReq, tOut, inNative>>
    /\ UNCHANGED exceptConc

NextConc ==
    \/ \E locked \in BOOLEAN : ConcStart(locked)
    \/ \E t \in Threads, m \in CommandOps : ConcIssue(t, m)
    \/ \E t \in Threads : ConcLock(t)
    \/ \E t \in Threads : ConcCallBegin(t)
    \/ \E t \in Threads, r \in {PROHAND_SUCCESS, PROHAND_ERROR_CONNECTION} : ConcCallEnd(t, r)
    \/ \E t \in Threads : ConcRelease(t)

SpecConc == Init /\ [][NextConc]_vars

\* C13 as stated: two command requests are never in flight at the same time,
\* whatever the callers do.
C13_SingleInFlight == Cardinality(inNative) <= 1

\* C13: when the callers serialize their calls with a mutex of their own, at
\* most one command request is in flight on the client at any time; a caller
\* that issues a second request meanwhile waits outside the client.
C13_SingleInFlightWhenLocked ==
    cMode = "locked" =>
        /\ Cardinality(inNative) <= 1
        /\ \A t \in Threads : tpc[t] \in {"entry", "native", "returned"} => mutex = t

C13_Witness ==
    /\ cMode = "locked"
    /\ tpc[1] = "native"
    /\ tReq[1] = "sendPing"
    /\ tpc[2] = "waiting"
    /\ tReq[2] = "setStreamingMode"
    /\ inNative = {1}

(***************************************************************************)
(* Construction, move, destruction and use of client objects               *)
(***************************************************************************)
Objects == 1..NumObjects
Handles == 1..MaxHandles

\* prohand_client_destroy(handle) / proglove_client_destroy(handle)
Destroyed(k) == [destroyCount EXCEPT ![k] = @ + 1]

\* the handle k is passed to a native function
BadHandle(k) == k = 0 \/ destroyCount[k] > 0

\* ProHandClient(...) / ProGloveClient(...): create; a null result throws and
\* leaves no object behind
Construct(o, c, ok) ==
    /\ ~oAlive[o]
    /\ nCreated < MaxHandles
    /\ lcOp' = "construct"
    /\ lcCalls' = 1
    /\ lcNull' = FALSE
    /\ IF ok
       THEN /\ nCreated' = nCreated + 1
            /\ oAlive' = [oAlive EXCEPT ![o] = TRUE]
            /\ oClass' = [oClass EXCEPT ![o] = c]
            /\ oHandle' = [oHandle EXCEPT ![o] = nCreated + 1]
            /\ lcOut' = "ok"
       ELSE /\ lcOut' = "throw"
            /\ UNCHANGED <<nCreated, oAlive, oClass, oHandle>>
    /\ UNCHANGED <<destroyCount, nativeBad>>
    /\ UNCHANGED exceptLifecycle

\* mutant: the move constructor leaves other.handle_ as it was
MoveConstructKeepsOther(o, other) ==
    /\ ~oAlive[o]
    /\ oAlive[other]
    /\ oAlive' = [oAlive EXCEPT ![o] = TRUE]
    /\ oClass' = [oClass EXCEPT ![o] = oClass[other]]
    /\ oHandle' = [oHandle EXCEPT ![o] = oHandle[other]]
    /\ lcOp' = "moveConstruct"
    /\ lcOut' = "ok"
    /\ lcCalls' = 0
    /\ lcNull' = FALSE
    /\ UNCHANGED <<nCreated, destroyCount, nativeBad>>
    /\ UNCHANGED exceptLifecycle

\* move constructor: handle_(other.handle_); other.handle_ = nullptr
MoveConstruct(o, other) ==
    /\ ~oAlive[o]
    /\ oAlive[other]
    /\ oAlive' = [oAlive EXCEPT ![o] = TRUE]
    /\ oClass' = [oClass EXCEPT ![o] = oClass[other]]
    /\ oHandle' = [oHandle EXCEPT ![o] = oHandle[other], ![other] = 0]
    /\ lcOp' = "moveConstruct"
    /\ lcOut' = "ok"
    /\ lcCalls' = 0
    /\ lcNull' = FALSE
    /\ UNCHANGED <<nCreated, destroyCount, nativeBad>>
    /\ UNCHANGED exceptLifecycle

\* move assignment: nothing on self-assignment; else destroy the own handle if
\* any, take other's, null other's
MoveAssign(o, other) ==
    /\ oAlive[o]
    /\ oAlive[other]
    /\ oClass[o] = oClass[other]
    /\ lcOp' = IF o = other THEN "selfAssign" ELSE "moveAssign"
    /\ lcOut' = "ok"
    /\ lcNull' = (oHandle[o] = 0)
    /\ IF o # other
       THEN /\ IF oHandle[o] # 0
               THEN /\ destroyCount' = Destroyed(oHandle[o])
                    /\ nativeBad' = (nativeBad \/ BadHandle(oHandle[o]))
                    /\ lcCalls' = 1
               ELSE /\ UNCHANGED <<destroyCount, nativeBad>>
                    /\ lcCalls' = 0
            /\ oHandle' = [oHandle EXCEPT ![o] = oHandle[other], ![other] = 0]
       ELSE /\ UNCHANGED <<destroyCount, nativeBad, oHandle>>
            /\ lcCalls' = 0
    /\ UNCHANGED <<oAlive, oClass, nCreated>>
    /\ UNCHANGED exceptLifecycle

\* destructor: if (handle_) { destroy(handle_); handle_ = nullptr; }
Destruct(o) ==
    /\ oAlive[o]
    /\ lcOp' = "destruct"
    /\ lcOut' = "ok"
    /\ lcNull' = (oHandle[o] = 0)
    /\ IF oHandle[o] # 0
       THEN /\ destroyCount' = Destroyed(oHandle[o])
            /\ nativeBad' = (nativeBad \/ BadHandle(oHandle[o]))
            /\ lcCalls' = 1
       ELSE /\ UNCHANGED <<destroyCount, nativeBad>>
            /\ lcCalls' = 0
    /\ oHandle' = [oHandle EXCEPT ![o] = 0]
    /\ oAlive' = [oAlive EXCEPT ![o] = FALSE]
    /\ UNCHANGED <<oClass, nCreated>>
    /\ UNCHANGED exceptLifecycle

\* arrays of the sizes an operation expects
GoodArgs(op) ==
    CASE op \in {"sendRotaryCommands", "sendRotaryStreams"} -> <<16, 16>>
      [] op \in {"sendLinearCommands", "sendLinearStreams"} -> <<2, 2>>
      [] op \in {"sendWristCommands", "sendWristStreams"} -> <<2>>
      [] op \in {"sendHandCommands", "sendHandStreams"} -> <<20>>
      [] op = "sendZeroCalibration" -> <<16>>
      [] op = "setWristLimits" -> <<2, 2, 2>>
      [] OTHER -> <<>>

\* a method of an object is called with well-sized arguments
ObjectCall(o, op, r) ==
    /\ LET out == WrapperOutcome(oClass[o], op, oHandle[o] # 0, GoodArgs(op), r) IN
        /\ lcOp' = op
        /\ lcOut' = out.outcome
        /\ lcCalls' = out.calls
        /\ lcNull' = (oHandle[o] = 0)
        /\ nativeBad' = (nativeBad \/ (out.calls > 0 /\ BadHandle(oHandle[o])))
    /\ UNCHANGED <<oAlive, oClass, oHandle, nCreated, destroyCount>>
    /\ UNCHANGED exceptLifecycle

NextLifecycle ==
    \/ \E o \in Objects, c \in {"hand", "glove"}, ok \in BOOLEAN : Construct(o, c, ok)
    \/ \E o \in Objects, other \in Objects : MoveConstruct(o, other)
    \/ \E o \in Objects, other \in Objects : MoveAssign(o, other)
    \/ \E o \in Objects : Destruct(o)
    \/ \E o \in {x \in Objects : oAlive[x]} :
          \E op \in (IF oClass[o] = "hand" THEN HandOps ELSE GloveOps) :
              \E r \in {PROHAND_SUCCESS, 1, PROHAND_ERROR_CONNECTION} : ObjectCall(o, op, r)

SpecLifecycle == Init /\ [][NextLifecycle]_vars

Owners(k) == {o \in Objects : oAlive[o] /\ oHandle[o] = k}

\* C14: every handle the create function returned is destroyed at most once,
\* is owned by exactly one object until then and by none afterwards (so it has
\* been destroyed exactly once when its last owner is gone), and a destructor
\* never throws.
C14_HandleDestroyedOnce ==
    /\ \A k \in Handles :
        /\ destroyCount[k] <= 1
        /\ k <= nCreated => Cardinality(Owners(k)) = 1 - destroyCount[k]
        /\ k > nCreated => (destroyCount[k] = 0 /\ Owners(k) = {})
    /\ lcOp = "destruct" => lcOut = "ok"

C14_Witness ==
    /\ nCreated = MaxHandles
    /\ \A k \in Handles : destroyCount[k] = 1
    /\ \A o \in Objects : ~oAlive[o]
    /\ lcOp = "destruct"

\* C15: no native function is ever called with a null or an already destroyed
\* handle; a method called on an object without a handle makes no native call.
C15_NoNativeCallOnDeadHandle ==
    /\ ~nativeBad
    /\ lcNull => lcCalls = 0
    /\ (lcNull /\ lcOp \in (HandOps \cup GloveOps) \ {"isConnected"}) => lcOut = "throw"

C15_Witness ==
    /\ lcOp = "sendHandStreams"
    /\ lcNull
    /\ lcOut = "throw"
    /\ lcCalls = 0
    /\ \E k \in Handles : destroyCount[k] = 1

(***************************************************************************)
(* The two operations that return a boolean: isRunningState called on its  *)
(* own, and waitForStreamingReady step by step                             *)
(***************************************************************************)
\* isRunningState() called by the user of the client, outside a wait
IsRunningStateOperation ==
    /\ pc = "idle"
    /\ opName = "none"
    /\ \E r \in ResultsOf("isRunningState", <<>>) :
          Operation("hand", "isRunningState", <<>>, r)

NextBool ==
    \/ MoveFrom
    \/ waitForStreamingReady
    \/ IsRunningStateOperation

SpecBool == Init /\ [][NextBool]_vars

\* C16 as stated: neither operation ever throws, whatever the client's state.
C16_NeverRaises ==
    /\ result # "throw"
    /\ ~(opName = "isRunningState" /\ opOutcome = "throw")

\* C16: on a client that holds a handle neither operation throws, and every
\* native failure (failed ping, error result of the status check) comes back
\* as false; each throws exactly when the handle is null.
C16_RaisesOnlyOnNullHandle ==
    /\ pc = "done" => (result = "throw") = ~handle_
    /\ (pc = "done" /\ result = "true") => (lastCheck /\ pingOk)
    /\ opName = "isRunningState" =>
        /\ (opOutcome = "throw") = ~opHandleOk
        /\ (opHandleOk /\ opNative # 1) => opOutcome = "false"
        /\ (opHandleOk /\ opNative = 1) => opOutcome = "true"

C16_Witness ==
    /\ opName = "isRunningState"
    /\ opHandleOk
    /\ opNative = PROHAND_ERROR_CONNECTION
    /\ opOutcome = "false"
    /\ pc = "done"
    /\ handle_
    /\ ~pingOk
    /\ result = "false"

\* C17: every ProHandClient operation other than waitForStreamingReady and
\* isRunningState throws when the handle is null or the native call returns
\* an error code.
C17_EveryFailureRaises ==
    (/\ opClass = "hand"
     /\ opName \in HandOps \ {"isRunningState"}
     /\ (~opHandleOk \/ (opNativeCalls > 0 /\ opNative < 0)))
    => opOutcome = "throw"

\* C18: checkResult of both classes reports each native result code under its
\* own category: 0 raises nothing, -1 null handle, -2 connection error,
\* -3 invalid argument, -4 not connected, -5 unsupported, anything else unknown.
C18_EachCodeOwnCategory ==
    (opNativeCalls > 0 /\ opName \notin {"isConnected", "isRunningState", "tryRecvStatus"})
    => /\ (opNative = 0) = (opOutcome = "ok")
       /\ opNative # 0 =>
            /\ opOutcome = "throw"
            /\ opError = (CASE opNative = 0 - 1 -> "Null pointer error"
                            [] opNative = 0 - 2 -> "Connection error"
                            [] opNative = 0 - 3 -> "Invalid argument"
                            [] opNative = 0 - 4 -> "Not connected"
                            [] opNative = 0 - 5 -> "Unsupported operation"
                            [] OTHER -> "Unknown error")

(***************************************************************************)
(* Status polling: tryRecvStatus against the status channel                *)
(***************************************************************************)
\* a status message of the device reaches the client library
StatusArrive ==
    /\ sOpen
    /\ sArrived < MaxQueued
    /\ sQueue' = sQueue + 1
    /\ sArrived' = sArrived + 1
    /\ UNCHANGED <<sOpen, sErrLeft, sLast, sNative, sPolls, sReceived>>
    /\ UNCHANGED exceptStatus

\* from now on no message arrives
StatusClose ==
    /\ sOpen
    /\ sOpen' = FALSE
    /\ UNCHANGED <<sQueue, sArrived, sErrLeft, sLast, sNative, sPolls, sReceived>>
    /\ UNCHANGED exceptStatus

\* prohand_try_recv_status / proglove_try_recv_status, non-blocking: 1 with the
\* oldest queued message, 0 if there is none, negative on a failure
NativePoll ==
    (IF sQueue > 0 THEN {1} ELSE {0})
        \cup (IF sErrLeft > 0 THEN {PROHAND_ERROR_CONNECTION} ELSE {})

\* one call of tryRecvStatus() of class c, whose native poll returns r
TryRecvStatusCall(c, r) ==
    /\ IF checkHandle(handle_) = "throw"
       THEN /\ sLast' = "throw"
            /\ sPolls' = 0
            /\ UNCHANGED <<sNative, sQueue, sErrLeft, sReceived>>
       ELSE LET out == tryRecvStatus(c, r) IN
            /\ sLast' = out.outcome
            /\ sPolls' = out.calls
            /\ sNative' = r
            /\ sQueue' = IF r > 0 THEN sQueue - 1 ELSE sQueue
            /\ sErrLeft' = IF r < 0 THEN sErrLeft - 1 ELSE sErrLeft
            /\ sReceived' = IF out.outcome = "status" THEN sReceived + 1 ELSE sReceived
    /\ UNCHANGED <<sOpen, sArrived>>
    /\ UNCHANGED exceptStatus

tryRecvStatusCalls ==
    \E c \in {"hand", "glove"}, r \in NativePoll : TryRecvStatusCall(c, r)

NextStatus ==
    \/ StatusArrive
    \/ StatusClose
    \/ tryRecvStatusCalls

SpecStatus == Init /\ [][NextStatus]_vars

\* the caller keeps polling
FairSpecStatus == SpecStatus /\ WF_vars(tryRecvStatusCalls)

C20_StreamBeforeReadyAccepted ==
    (opName \in StreamOps /\ opClass = "hand" /\ opHandleOk /\ ArityOk(opName, opLens) /\ ~ready)
    => opOutcome = "ok"

\* C20: a well-sized streaming send on a live handle always reaches the native
\* send, whether or not readiness was confirmed before, and it raises exactly
\* when the native send returns an error code.
C20_StreamSendIgnoresReadiness ==
    (opName \in StreamOps /\ opClass = "hand" /\ opHandleOk /\ ArityOk(opName, opLens))
    => /\ opNativeCalls = 1
       /\ (opOutcome = "ok") = (opNative = PROHAND_SUCCESS)
       /\ (opOutcome = "throw") = (opNative # PROHAND_SUCCESS)

C20_Witness ==
    /\ opName = "sendHandStreams"
    /\ opLens = <<20>>
    /\ opHandleOk
    /\ ~ready
    /\ opNativeCalls = 1
    /\ opOutcome = "ok"

\* C21: a call of isRunningState makes one native status check and nothing
\* else: no ping, no enable command, no streaming send, no retry, no sleep,
\* and the streaming mode asked of the host stays as it was.
C21_IsRunningStateSingleShot ==
    /\ [](opName = "isRunningState" =>
            /\ opNativeCalls = (IF opHandleOk THEN 1 ELSE 0)
            /\ Channel(NativeFunction(opClass, opName)) = "status")
    /\ [][(opName' = "isRunningState" /\ opName # "isRunningState") =>
            UNCHANGED <<clock, nPing, nEnable, nEnableThrew, nPoll, nFinal,
                        lastEnable, hostEnables, hostRunning, ready>>]_vars

C21_Witness ==
    /\ opName = "isRunningState"
    /\ opHandleOk
    /\ opNativeCalls = 1
    /\ opNative = 0
    /\ opOutcome = "false"
    /\ pc = "done"
    /\ nEnable > 0

\* C22: a call of setStreamingMode makes exactly one request, on the command
\* channel, and ends by the result of that request alone: no status poll, no
\* verification, no retry, for enabling and for disabling.
C22_SetStreamingModeOneRequest ==
    /\ [](opName = "setStreamingMode" =>
            /\ opNativeCalls = (IF opHandleOk THEN 1 ELSE 0)
            /\ Channel(NativeFunction(opClass, opName)) = "command"
            /\ opHandleOk => (opOutcome = "ok") = (opNative = PROHAND_SUCCESS))
    /\ [][(opName' = "setStreamingMode" /\ opName # "setStreamingMode") =>
            UNCHANGED <<clock, nPing, nPoll, nFinal, sawRunning, lastCheck, ready>>]_vars

C22_Witness ==
    /\ opName = "setStreamingMode"
    /\ opLens = <<0>>
    /\ opHandleOk
    /\ opNativeCalls = 1
    /\ opOutcome = "ok"
    /\ ready

\* C23: waitForStreamingReady makes no status check (in the loop or the final
\* one) before the ping has succeeded and 200 ms have passed since then.
C23_NoPollBeforeSettle ==
    (nPoll > 0 \/ nFinal > 0 \/ pc \in {"poll", "final"})
    => (pingOk /\ settled /\ clock - start >= 200)

C23_Witness ==
    /\ pc = "retry"
    /\ nPoll = 1
    /\ pingOk
    /\ clock - start = 200

\* C24: in one invocation every re-send of the enable command follows a status
\* check of the same iteration that did not report Running, so re-sends never
\* outnumber checks; a re-send is made only when at least retryInterval has
\* passed since the start or the last successful re-send, and two successful
\* re-sends are at least retryInterval apart.
C24_PollsOutnumberResends ==
    /\ [](nEnable <= nPoll)
    /\ [][nEnable' > nEnable =>
            /\ pc = "retry"
            /\ nEnable < nPoll
            /\ ~lastCheck
            /\ ~sawRunning
            /\ now - lastRetry >= retryInterval
            /\ (lastEnable' = "ok" =>
                    (lastRetry' = now /\ lastRetry' - lastRetry >= retryInterval))
            /\ (lastEnable' = "threw" => lastRetry' = lastRetry)]_vars

C24_Witness ==
    /\ nEnable = 2
    /\ nEnableThrew = 0
    /\ retryInterval = 100
    /\ nPoll = 3
    /\ lastRetry - start = 300

(***************************************************************************)
(* What the demo programs stream                                           *)
(***************************************************************************)
\* the calls made so far met a conforming host: nothing threw, the wait returned true
Conforming == \A i \in 1..Len(dTrace) : dTrace[i][3] \in {"ok", "true"}

\* call number i is a hand stream / is a hand stream that moves no joint
IsHandStream(i) == dTrace[i][1] = "sendHandStreams"
IsZeroHandStream(i) ==
    IsHandStream(i) /\ \A k \in 1..Len(dArgs[i].pos) : dArgs[i].pos[k] = 0

\* a finished run of test_hand against a conforming host
TestHandDone == demo = "test_hand" /\ dpc = "exit" /\ Conforming

\* the fixed calls of test_hand, in their places, and exit code 0
TestHandFrame ==
    /\ dExit = 0
    /\ Len(dTrace) >= 9
    /\ dTrace[1] = <<"ProHandClient", "", "ok">>
    /\ dTrace[2] = <<"sendPing", "", "ok">>
    /\ dTrace[3] = <<"setStreamingMode", "true", "ok">>
    /\ dTrace[4] = <<"waitForStreamingReady", "", "true">>
    /\ IsHandStream(5) /\ dArgs[5] = Hand(zeroPositions, 45)
    /\ IsZeroHandStream(Len(dTrace) - 2)
    /\ dTrace[Len(dTrace)] = <<"setStreamingMode", "false", "ok">>
    /\ \A i \in 5..(Len(dTrace) - 1) : IsStreamSend(dTrace[i])
    /\ \A i \in 1..Len(dTrace) :
          IsHandStream(i) => Len(dArgs[i].pos) = 20 /\ dArgs[i].torque = 45

\* a pose stream that moves a joint lies between the two zero streams
TestHandPoses == \E i \in 6..(Len(dTrace) - 3) : IsHandStream(i) /\ ~IsZeroHandStream(i)

C26_ExcludeWristSkipsWrist ==
    (demo = "cyclic_motion" /\ dOpts.excludeWrist) =>
        \A i \in 1..Len(dTrace) : dTrace[i][1] # "sendWristStreams"

\* C27: when cyclic_motion runs without --include-thumb, all four thumb joint
\* positions (indices 0 to 3) are 0 in every hand stream sent.
C27_ThumbStillWithoutIncludeThumb ==
    (demo = "cyclic_motion" /\ ~dOpts.includeThumb) =>
        \A i \in 1..Len(dTrace) :
            IsHandStream(i) => \A k \in 1..4 : dArgs[i].pos[k] = 0

\* the abduction positions: joint 0 of index, middle, ring and pinky
AbductionIndices == {4 * f + 1 : f \in 1..4}

MaxCount == 4

\* --count is any int
Counts == (0 - 1)..MaxCount

\* the program is started with its command line
PingStart(c) ==
    /\ pgpc = "start"
    /\ pgCount' = c
    /\ pgpc' = "construct"
    /\ UNCHANGED <<pgClient, pgI, successCount, pgSent, pgSleeps, pgExit>>
    /\ UNCHANGED exceptPing

\* ProHandClient client(...); a failure is caught by the outer handler: return 1
PingConstruct(ok) ==
    /\ pgpc = "construct"
    /\ pgClient' = ok
    /\ IF ok THEN pgpc' = "loop" /\ pgExit' = pgExit
       ELSE pgpc' = "exit" /\ pgExit' = 1
    /\ UNCHANGED <<pgCount, pgI, successCount, pgSent, pgSleeps>>
    /\ UNCHANGED exceptPing

\* mutant: a failed ping leaves the loop
PingSendAborting(ok) ==
    /\ pgpc = "loop"
    /\ pgI < pgCount
    /\ pgSent' = Append(pgSent, IF ok THEN "ok" ELSE "throw")
    /\ IF ok
       THEN /\ successCount' = successCount + 1
            /\ pgpc' = IF pgI < pgCount - 1 THEN "sleep" ELSE "next"
            /\ pgExit' = pgExit
       ELSE /\ successCount' = successCount
            /\ pgpc' = "exit"
            /\ pgExit' = 1
    /\ UNCHANGED <<pgClient, pgCount, pgI, pgSleeps>>
    /\ UNCHANGED exceptPing

\* for (int i = 0; i < count; ++i) try { client.sendPing(); successCount++; ... }
\* catch (const SdkException&) { ... }
PingSend(ok) ==
    /\ pgpc = "loop"
    /\ pgI < pgCount
    /\ pgSent' = Append(pgSent, IF ok THEN "ok" ELSE "throw")
    /\ IF ok
       THEN /\ successCount' = successCount + 1
            /\ pgpc' = IF pgI < pgCount - 1 THEN "sleep" ELSE "next"
       ELSE /\ successCount' = successCount
            /\ pgpc' = "next"
    /\ UNCHANGED <<pgClient, pgCount, pgI, pgSleeps, pgExit>>
    /\ UNCHANGED exceptPing

\* if (i < count - 1) std::this_thread::sleep_for(delay)
PingSleep ==
    /\ pgpc = "sleep"
    /\ pgSleeps' = pgSleeps + 1
    /\ pgpc' = "next"
    /\ UNCHANGED <<pgClient, pgCount, pgI, successCount, pgSent, pgExit>>
    /\ UNCHANGED exceptPing

\* ++i
PingNext ==
    /\ pgpc = "next"
    /\ pgI' = pgI + 1
    /\ pgpc' = "loop"
    /\ UNCHANGED <<pgClient, pgCount, successCount, pgSent, pgSleeps, pgExit>>
    /\ UNCHANGED exceptPing

\* return successCount == count ? 0 : 1;
PingReturn ==
    /\ pgpc = "loop"
    /\ ~(pgI < pgCount)
    /\ pgpc' = "exit"
    /\ pgExit' = IF successCount = pgCount THEN 0 ELSE 1
    /\ UNCHANGED <<pgClient, pgCount, pgI, successCount, pgSent, pgSleeps>>
    /\ UNCHANGED exceptPing

NextPing ==
    \/ \E c \in Counts : PingStart(c)
    \/ \E ok \in BOOLEAN : PingConstruct(ok)
    \/ \E ok \in BOOLEAN : PingSend(ok)
    \/ PingSleep
    \/ PingNext
    \/ PingReturn

SpecPing == Init /\ [][NextPing]_vars

\* the pings made so far that returned
PingsOk == {k \in 1..Len(pgSent) : pgSent[k] = "ok"}

\* the ping demo has ended
PingDone == pgpc = "exit"

\* C29 as stated: the ping demo attempts exactly count pings, a ping that fails
\* with SdkException is counted as failed and does not abort the remaining
\* pings, and the process exits with code 0 if and only if all count pings
\* succeeded.
C29_ExactlyCountPings ==
    PingDone =>
        /\ Len(pgSent) = pgCount
        /\ pgExit = 0 <=> Cardinality(PingsOk) = pgCount

\* C29 amended: once the client is constructed and count is not negative, the
\* demo attempts exactly count pings whatever their outcomes, counts the
\* failed ones as failed, sleeps after each successful ping but the last, and
\* exits with 0 exactly when all count pings succeeded; when the client cannot
\* be constructed or count is negative it attempts no ping and exits with 1.
C29_CountPingsOnceConnected ==
    /\ successCount = Cardinality(PingsOk)
    /\ Len(pgSent) <= (IF pgCount < 0 THEN 0 ELSE pgCount)
    /\ pgpc \in {"loop", "exit"} => pgSleeps = Cardinality(PingsOk \ {pgCount})
    /\ PingDone =>
          IF ~pgClient \/ pgCount < 0
          THEN Len(pgSent) = 0 /\ pgExit = 1
          ELSE /\ Len(pgSent) = pgCount
               /\ pgExit = 0 <=> Cardinality(PingsOk) = pgCount

C29_Witness ==
    /\ PingDone /\ pgCount = 3 /\ pgSent = <<"ok", "throw", "ok">>
    /\ successCount = 2 /\ pgExit = 1

(***************************************************************************)
(* The test_glove monitor: main() of test_glove and its SIGINT handler     *)
(***************************************************************************)
\* the largest --duration, the ticks the clock is followed for, and the polls
\* that are counted
MaxDuration == 2
MaxTicks == 4
MaxMonPolls == 3

\* --duration: "Duration to run in seconds (0 = infinite)"
Durations == 0..MaxDuration

\* std::signal(SIGINT, signalHandler); the program starts
MonStart(d) ==
    /\ mpc = "start"
    /\ mDuration' = d
    /\ mpc' = "construct"
    /\ UNCHANGED <<g_running, mClock, mStart, mElapsed, mPolls, mPollsAfterInt,
                   mWhy, mExit>>
    /\ UNCHANGED exceptMonitor

\* void signalHandler(int) { g_running = false; }, at any moment of the run
signalHandler ==
    /\ mpc \notin {"start", "exit"}
    /\ g_running
    /\ g_running' = FALSE
    /\ UNCHANGED <<mpc, mDuration, mClock, mStart, mElapsed, mPolls,
                   mPollsAfterInt, mWhy, mExit>>
    /\ UNCHANGED exceptMonitor

\* catch (const SdkException&) { ...; return 1; }
MonCaught ==
    /\ mpc' = "exit"
    /\ mWhy' = "throw"
    /\ mExit' = 1

\* ProGloveClient client(endpoint);
MonConstruct(ok) ==
    /\ mpc = "construct"
    /\ IF ok THEN mpc' = "ping" /\ UNCHANGED <<mWhy, mExit>> ELSE MonCaught
    /\ UNCHANGED <<g_running, mDuration, mClock, mStart, mElapsed, mPolls,
                   mPollsAfterInt>>
    /\ UNCHANGED exceptMonitor

\* client.sendPing();
MonPing(ok) ==
    /\ mpc = "ping"
    /\ IF ok THEN mpc' = "settle" /\ UNCHANGED <<mWhy, mExit>> ELSE MonCaught
    /\ UNCHANGED <<g_running, mDuration, mClock, mStart, mElapsed, mPolls,
                   mPollsAfterInt>>
    /\ UNCHANGED exceptMonitor

\* sleep_for(500ms); auto startTime = steady_clock::now();
MonSettle ==
    /\ mpc = "settle"
    /\ mClock' = mClock + 1
    /\ mStart' = mClock'
    /\ mpc' = "while"
    /\ UNCHANGED <<g_running, mDuration, mElapsed, mPolls, mPollsAfterInt,
                   mWhy, mExit>>
    /\ UNCHANGED exceptMonitor

\* mutant: while (true)
MonWhileBlind ==
    /\ mpc = "while"
    /\ mpc' = "check"
    /\ UNCHANGED <<mWhy, mExit>>
    /\ UNCHANGED <<g_running, mDuration, mClock, mStart, mElapsed, mPolls,
                   mPollsAfterInt>>
    /\ UNCHANGED exceptMonitor

\* while (g_running) { ... } return 0;
MonWhile ==
    /\ mpc = "while"
    /\ IF g_running
       THEN /\ mpc' = "check"
            /\ UNCHANGED <<mWhy, mExit>>
       ELSE /\ mpc' = "exit"
            /\ mWhy' = "flag"
            /\ mExit' = 0
    /\ UNCHANGED <<g_running, mDuration, mClock, mStart, mElapsed, mPolls,
                   mPollsAfterInt>>
    /\ UNCHANGED exceptMonitor

\* elapsed = now - startTime; if (duration > 0 && elapsed >= duration) break;
MonCheck ==
    /\ mpc = "check"
    /\ mElapsed' = mClock - mStart
    /\ IF mDuration > 0 /\ mElapsed' >= mDuration
       THEN /\ mpc' = "exit"
            /\ mWhy' = "duration"
            /\ mExit' = 0
       ELSE /\ mpc' = "poll"
            /\ UNCHANGED <<mWhy, mExit>>
    /\ UNCHANGED <<g_running, mDuration, mClock, mStart, mPolls, mPollsAfterInt>>
    /\ UNCHANGED exceptMonitor

\* auto status = client.tryRecvStatus(); a status, std::nullopt or SdkException
MonPoll(out) ==
    /\ mpc = "poll"
    /\ mPolls' = Min(mPolls + 1, MaxMonPolls)
    /\ mPollsAfterInt' = IF g_running THEN mPollsAfterInt
                         ELSE Min(mPollsAfterInt + 1, 2)
    /\ IF out = "throw" THEN MonCaught
       ELSE mpc' = "sleep" /\ UNCHANGED <<mWhy, mExit>>
    /\ UNCHANGED <<g_running, mDuration, mClock, mStart, mElapsed>>
    /\ UNCHANGED exceptMonitor

\* sleep_for(100us): time passes, by less than a tick or by a tick
MonSleep(dt) ==
    /\ mpc = "sleep"
    /\ mClock' = Min(mClock + dt, MaxTicks)
    /\ mpc' = "while"
    /\ UNCHANGED <<g_running, mDuration, mStart, mElapsed, mPolls,
                   mPollsAfterInt, mWhy, mExit>>
    /\ UNCHANGED exceptMonitor

\* the steps of main()
MonProgram ==
    \/ \E ok \in BOOLEAN : MonConstruct(ok)
    \/ \E ok \in BOOLEAN : MonPing(ok)
    \/ MonSettle
    \/ MonWhile
    \/ MonCheck
    \/ \E out \in {"status", "nullopt", "throw"} : MonPoll(out)
    \/ \E dt \in 0..1 : MonSleep(dt)

NextMonitor ==
    \/ \E d \in Durations : MonStart(d)
    \/ signalHandler
    \/ MonProgram

SpecMonitor == Init /\ [][NextMonitor]_vars

\* the process is scheduled: main() keeps taking its next step
FairSpecMonitor == SpecMonitor /\ WF_vars(MonProgram)

\* the duration rules of the loop: it is left for the duration at the first
\* iteration where elapsed >= duration, and never for the duration when
\* duration is 0
DurationRule ==
    /\ (mpc \in {"poll", "sleep"} /\ mDuration > 0) => mElapsed < mDuration
    /\ mWhy = "duration" => (mDuration > 0 /\ mElapsed >= mDuration)

\* C30 as stated: once SIGINT has set g_running to false the polling loop
\* makes at most one more tryRecvStatus poll and main returns 0; with
\* duration > 0 the loop also ends at the first iteration where elapsed >=
\* duration, and with duration = 0 only SIGINT ends it.
C30_StopsAfterInterrupt ==
    /\ [](mPollsAfterInt <= 1)
    /\ []((mpc = "exit" /\ ~g_running /\ mPolls > 0) => mExit = 0)
    /\ []DurationRule
    /\ []((mpc = "exit" /\ mDuration = 0 /\ mPolls > 0) => ~g_running)
    /\ (~g_running ~> mpc = "exit")

\* C30 amended: the same, unless a tryRecvStatus poll throws: SdkException ends
\* the loop at once, with or without SIGINT, and main then returns 1.
C30_StopsAfterInterruptOrThrow ==
    /\ [](mPollsAfterInt <= 1)
    /\ []((mpc = "exit" /\ mWhy # "throw") => mExit = 0)
    /\ []((mpc = "exit" /\ mWhy = "throw") => mExit = 1)
    /\ [](mWhy = "flag" => ~g_running)
    /\ []DurationRule
    /\ []((mpc = "exit" /\ mDuration = 0 /\ mWhy # "throw") => (mWhy = "flag" /\ ~g_running))
    /\ (~g_running ~> mpc = "exit")

C30_Witness ==
    /\ mpc = "exit" /\ mWhy = "flag" /\ mExit = 0 /\ mDuration = 0
    /\ mPollsAfterInt = 1 /\ mPolls = 2

\* C33: inside waitForStreamingReady, when a re-assert setStreamingMode(true)
\* throws, lastRetry is left unchanged, so the re-assert is due again at the
\* very next poll iteration, which begins one poll sleep (about 50 ms) later,
\* and not after another retryInterval; lastRetry advances only after a
\* re-send that succeeded.
C33_ThrownReassertRetriedNextPoll ==
    /\ [][nEnableThrew' > nEnableThrew => lastRetry' = lastRetry]_vars
    /\ [][(pc \notin {"idle", "ping"} /\ lastRetry' # lastRetry) =>
            (pc = "retry" /\ nEnable' = nEnable + 1 /\ lastEnable' = "ok"
             /\ lastRetry' = now)]_vars
    /\ []((pc = "retry" /\ lastEnable = "threw") =>
            RetryDue(now, lastRetry, retryInterval))
    /\ [][(pc = "loop" /\ pc' = "poll" /\ lastEnable = "threw") =>
            /\ now' - now >= Min(pollInterval, timeout - elapsed)
            /\ now' - now <= pollInterval + 2 * DelayUnit * MaxDelaySteps]_vars

C33_Witness ==
    /\ pc = "sleep" /\ nEnable = 2 /\ nEnableThrew = 1 /\ lastEnable = "ok"
    /\ nPoll = 2 /\ retryInterval = 200 /\ lastRetry = now /\ now - start < 400

\* C34: waitForStreamingReady only ever issues a ping, streaming-on commands
\* and status checks: it never sends streaming-off or a pose command, it sends
\* nothing further once a status check has returned Running, and on timeout it
\* returns without revoking the streaming-on request already sent to the host.
C34_SendsOnlyPingEnableStatus ==
    /\ [](/\ sent \subseteq {"sendPing", "setStreamingMode(true)", "isRunningState"}
          /\ ("sendPing" \in sent) = (nPing > 0)
          /\ ("setStreamingMode(true)" \in sent) = (nEnable > 0)
          /\ ("isRunningState" \in sent) = (nPoll + nFinal > 0))
    /\ [][sawRunning =>
            (sent' = sent /\ UNCHANGED <<nPing, nEnable, nPoll, nFinal, hostEnables>>)]_vars
    /\ [][pc = "final" =>
            (sent' \ sent \subseteq {"isRunningState"}
             /\ UNCHANGED <<nEnable, hostEnables, hostRunning>>)]_vars
    /\ []((pc = "done" /\ result = "false") => "setStreamingMode(false)" \notin sent)

C34_Witness ==
    /\ pc = "done" /\ result = "false" /\ pingOk /\ nEnable >= 1 /\ nFinal = 1
    /\ sent = {"sendPing", "setStreamingMode(true)", "isRunningState"}

\* C32: in each streaming demo, every run that has sent setStreamingMode(true)
\* sends setStreamingMode(false) before the process exits, on every exit path:
\* readiness timeout, an SdkException raised while streaming, normal completion.
C32_DisablesOnEveryExit ==
    dpc = "exit" =>
        \A i \in 1..Len(dTrace) :
            dTrace[i] = <<"setStreamingMode", "true", "ok">> =>
                \E j \in (i + 1)..Len(dTrace) :
                    dTrace[j][1] = "setStreamingMode" /\ dTrace[j][2] = "false"

(***************************************************************************)
(* The connect demo: main() of connect                                     *)
(***************************************************************************)
\* const double maxWait = 2.0; const double pollInterval = 0.1; in milliseconds
maxWait == 2000
connectPollInterval == 100

\* catch (const SdkException&) { ...; return 1; }
ConnCaught ==
    /\ cnpc' = "exit"
    /\ cExit' = 1

\* ProHandClient client(...); auto startTime = steady_clock::now();
ConnConstruct(ok, d) ==
    /\ cnpc = "start"
    /\ cClock' = cClock + d
    /\ cStart' = cClock'
    /\ IF ok THEN cnpc' = "while" /\ cExit' = cExit ELSE ConnCaught
    /\ UNCHANGED <<cConnected, cChecks, cPinged>>
    /\ UNCHANGED exceptConnect

\* while (!client.isConnected() && now() - startTime < maxWait)
ConnWhile(c) ==
    /\ cnpc = "while"
    /\ cChecks' = cChecks + 1
    /\ cConnected' = IF c THEN "true" ELSE "false"
    /\ cnpc' = IF ~c /\ cClock - cStart < maxWait THEN "sleep" ELSE "check"
    /\ UNCHANGED <<cClock, cStart, cPinged, cExit>>
    /\ UNCHANGED exceptConnect

\* std::this_thread::sleep_for(pollInterval)
ConnSleep(j) ==
    /\ cnpc = "sleep"
    /\ cClock' = cClock + connectPollInterval + j
    /\ cnpc' = "while"
    /\ UNCHANGED <<cStart, cConnected, cChecks, cPinged, cExit>>
    /\ UNCHANGED exceptConnect

\* mutant: the check after the loop is left out
ConnCheckSkipped(c) ==
    /\ cnpc = "check"
    /\ cnpc' = "ping"
    /\ UNCHANGED <<cClock, cStart, cConnected, cChecks, cPinged, cExit>>
    /\ UNCHANGED exceptConnect

\* if (!client.isConnected()) { ...; return 1; }
ConnCheck(c) ==
    /\ cnpc = "check"
    /\ cChecks' = cChecks + 1
    /\ cConnected' = IF c THEN "true" ELSE "false"
    /\ IF ~c THEN ConnCaught ELSE cnpc' = "ping" /\ cExit' = cExit
    /\ UNCHANGED <<cClock, cStart, cPinged>>
    /\ UNCHANGED exceptConnect

\* client.sendPing(); ...; return 0;
ConnPing(ok) ==
    /\ cnpc = "ping"
    /\ cPinged' = TRUE
    /\ IF ok THEN cnpc' = "exit" /\ cExit' = 0 ELSE ConnCaught
    /\ UNCHANGED <<cClock, cStart, cConnected, cChecks>>
    /\ UNCHANGED exceptConnect

NextConnect ==
    \/ \E ok \in BOOLEAN, d \in Delays : ConnConstruct(ok, d)
    \/ \E c \in BOOLEAN : ConnWhile(c)
    \/ \E j \in Delays : ConnSleep(j)
    \/ \E c \in BOOLEAN : ConnCheck(c)
    \/ \E ok \in BOOLEAN : ConnPing(ok)

SpecConnect == Init /\ [][NextConnect]_vars

\* the process is scheduled: main() keeps taking its next step
FairSpecConnect == SpecConnect /\ WF_vars(NextConnect)

\* C31: the connect demo sends its ping only if its most recent isConnected()
\* check returned true; if the client is still not connected after polling
\* isConnected() every 100 ms for at most 2 s, it exits with code 1 without
\* sending a ping; and the wait loop always terminates.
C31_PingOnlyWhenConnected ==
    /\ [][(cPinged' /\ ~cPinged) => cConnected = "true"]_vars
    /\ []((cnpc = "exit" /\ cConnected = "false") => (cExit = 1 /\ ~cPinged))
    /\ [](cnpc = "sleep" => (cConnected = "false" /\ cClock - cStart < maxWait))
    /\ [][cnpc = "sleep" => cClock' - cClock >= connectPollInterval]_vars
    /\ [](cChecks <= maxWait \div connectPollInterval + 2)
    /\ (cnpc \in {"while", "sleep"} ~> cnpc \notin {"while", "sleep"})

C31_Witness ==
    /\ cnpc = "exit" /\ cExit = 1 /\ ~cPinged /\ cConnected = "false"
    /\ cChecks = 22 /\ cClock - cStart >= maxWait

(***************************************************************************)
(* kapandji: a gesture of the YAML configuration turned into positions     *)
(***************************************************************************)
\* the longest joint list a gesture is given
MaxJointList == 5

\* const std::vector<std::string> fingerNames
fingerNames == <<"thumb", "index", "middle", "ring", "pinky">>
PoseKeys == {fingerNames[k] : k \in 1..5} \cup {"wrist"}

\* a key of a gesture: absent or no sequence, or a list of angles in degrees
NoNode == [isSeq |-> FALSE, items |-> <<>>]
JointListLens == {0, 2, 4, MaxJointList}
YamlNodes(base) ==
    {NoNode} \cup {[isSeq |-> TRUE, items |-> [i \in 1..l |-> base + i]] :
                      l \in JointListLens}

\* the angles written for a key differ from key to key
KeyBase(key) ==
    CASE key = "thumb" -> 10 [] key = "index" -> 20 [] key = "middle" -> 30
      [] key = "ring" -> 40 [] key = "pinky" -> 50 [] key = "wrist" -> 60

\* the gestures a configuration may hold
Gestures ==
    {[found |-> TRUE,
      nodes |-> [thumb |-> t, index |-> i, middle |-> m, ring |-> r, pinky |-> p,
                 wrist |-> w]] :
        t \in YamlNodes(KeyBase("thumb")), i \in YamlNodes(KeyBase("index")),
        m \in YamlNodes(KeyBase("middle")), r \in YamlNodes(KeyBase("ring")),
        p \in YamlNodes(KeyBase("pinky")), w \in YamlNodes(KeyBase("wrist"))}

\* the gesture is not in the configuration
NoGesture == [found |-> FALSE, nodes |-> <<>>]

\* degrees to radians (* M_PI / 180.0), in thousandths
Rad(deg) == (deg * 3142) \div 180

\* mutant: the list is taken as it is written
parseJointListWhole(node, n, fill) ==
    IF node.isSeq THEN [i \in 1..Len(node.items) |-> Rad(node.items[i])]
    ELSE [i \in 1..n |-> fill]

\* std::vector<double> out(n, fill); the first n items of a sequence replace it
parseJointList(node, n, fill) ==
    [i \in 1..n |-> IF node.isSeq /\ i <= Len(node.items)
                    THEN Rad(node.items[i])
                    ELSE fill]

\* poseFromYaml, for a gesture that was found
poseFromYaml(g) ==
    [k \in PoseKeys |-> parseJointList(g.nodes[k], IF k = "wrist" THEN 2 ELSE 4, 0)]

\* poseToHandPositions: the fingers' lists one after the other
FingerPart(pose, finger) ==
    IF finger \in DOMAIN pose THEN pose[finger] ELSE <<0, 0, 0, 0>>

poseToHandPositions(pose) ==
    FingerPart(pose, fingerNames[1]) \o FingerPart(pose, fingerNames[2])
        \o FingerPart(pose, fingerNames[3]) \o FingerPart(pose, fingerNames[4])
        \o FingerPart(pose, fingerNames[5])

\* streamPose: wristPositions = {0, 0}, overwritten by the first two of pose["wrist"]
WristPart(pose) ==
    [i \in 1..2 |-> IF "wrist" \in DOMAIN pose /\ i <= Len(pose["wrist"])
                    THEN pose["wrist"][i] ELSE 0]

\* a gesture of the sequence is looked up in the configuration
PoseChoose(g) ==
    /\ kpc = "start"
    /\ kGesture' = g
    /\ kpc' = "chosen"
    /\ UNCHANGED <<kPositions, kWrist, kSend>>
    /\ UNCHANGED exceptPose

\* auto pose = poseFromYaml(...): throw std::runtime_error("YAML gesture ... not found")
PoseMissing ==
    /\ kpc = "chosen"
    /\ ~kGesture.found
    /\ kpc' = "thrown"
    /\ UNCHANGED <<kGesture, kPositions, kWrist, kSend>>
    /\ UNCHANGED exceptPose

\* streamPose(client, pose, ...): positions, wristPositions, client.sendHandStreams
streamPose(r) ==
    /\ kpc = "chosen"
    /\ kGesture.found
    /\ LET pose == poseFromYaml(kGesture) IN
        /\ kPositions' = poseToHandPositions(pose)
        /\ kWrist' = WristPart(pose)
    /\ kSend' = MethodCall("hand", "sendHandStreams", TRUE, TRUE, <<Len(kPositions')>>, r)
    /\ kpc' = "streamed"
    /\ UNCHANGED kGesture
    /\ UNCHANGED exceptPose

NextPose ==
    \/ \E g \in (IF kpc = "start" THEN Gestures \cup {NoGesture} ELSE {}) :
          PoseChoose(g)
    \/ PoseMissing
    \/ \E r \in {PROHAND_SUCCESS, PROHAND_ERROR_NOT_CONNECTED} : streamPose(r)

SpecPose == Init /\ [][NextPose]_vars

\* what the configuration gives joint j of a key: the written angle, 0 if the
\* list is missing or too short
Written(g, key, j) ==
    IF g.nodes[key].isSeq /\ j <= Len(g.nodes[key].items)
    THEN Rad(g.nodes[key].items[j]) ELSE 0

\* C35: in the kapandji demo, for every YAML gesture (finger lists that are
\* shorter than 4, longer than 4, or missing) poseToHandPositions(
\* poseFromYaml(...)) yields exactly 20 positions in the order thumb, index,
\* middle, ring, pinky, so the sendHandStreams call in streamPose never fails
\* the arity check.
C35_TwentyPositionsInFingerOrder ==
    kpc = "streamed" =>
        /\ Len(kPositions) = 20
        /\ \A f \in 1..5, j \in 1..4 :
              kPositions[4 * (f - 1) + j] = Written(kGesture, fingerNames[f], j)
        /\ Len(kWrist) = 2
        /\ kSend.calls = 1
        /\ kSend.error # "wrong number of elements"

C35_Witness ==
    /\ kpc = "streamed" /\ kSend.outcome = "ok"
    /\ \lnot kGesture.nodes["thumb"].isSeq
    /\ Len(kGesture.nodes["index"].items) = 2
    /\ Len(kGesture.nodes["middle"].items) = 5
    /\ Len(kGesture.nodes["ring"].items) = 4
    /\ kPositions[6] = Rad(22) /\ kPositions[7] = 0 /\ kPositions[12] = Rad(34)

====
